---- MODULE Spec2Model ----
(***************************************************************************)
(* OAuth token lifecycle of flow (src/flow/auth.py, src/flow/commands/     *)
(* auth.py): the token file ~/.config/flow/auth.json, the calls that read  *)
(* and write it, the token endpoint as an arbitrary environment, and the   *)
(* CLI processes that run those calls step by step.  After it: the         *)
(* Anthropic provider (providers/anthropic.py), the PKCE pair, the context *)
(* collector and file indexer (context/, utils/files.py), the directory    *)
(* tree, the two file scans and the login command, each under a            *)
(* specification of its own.                                               *)
(***************************************************************************)
EXTENDS Integers, Sequences, FiniteSets, TLC

(***************************************************************************)
(* Bounds of the model.                                                    *)
(***************************************************************************)
\* calls a CLI process makes before it stops
MaxOps == 2
\* times the clock advances
MaxTicks == 2
\* calls each of two concurrent CLI processes makes
ConcOps == 1

(***************************************************************************)
(* Program constants.                                                      *)
(***************************************************************************)
\* auth.py:211  "expires_at - 300" (5 minute buffer)
EXPIRY_BUFFER == 300
\* auth.py:103, 136  token_data.get("expires_in", 3600)
DEFAULT_EXPIRES_IN == 3600
\* commands/auth.py:99  "expires_at > 1e12", in thousands: 1e12 = MS_THRESHOLD_K * 1000
MS_THRESHOLD_K == 1000000000

(***************************************************************************)
(* Python values that travel through the token file: None, numbers and     *)
(* strings, all as one record shape.                                       *)
(***************************************************************************)
NullV == [kind |-> "null", num |-> 0, str |-> ""]
Num(n) == [kind |-> "num", num |-> n, str |-> ""]
Str(s) == [kind |-> "str", num |-> 0, str |-> s]

(***************************************************************************)
(* TokenData (auth.py:30-36); NoToken stands for Python's None where a     *)
(* TokenData | None is expected.                                           *)
(***************************************************************************)
TokenData(a, r, e) ==
    [some |-> TRUE, access_token |-> a, refresh_token |-> r, expires_at |-> e]
NoToken ==
    [some |-> FALSE, access_token |-> NullV, refresh_token |-> NullV, expires_at |-> NullV]

(***************************************************************************)
(* The token file's text, as a sequence of JSON lexemes.  Punctuation,     *)
(* null and single digits are lexemes of their own; every other string is  *)
(* a quoted JSON string; Garbage is text no JSON grammar accepts.          *)
(***************************************************************************)
Garbage == "~"
DigitLex == <<"0", "1", "2", "3", "4", "5", "6", "7", "8", "9">>
Punct == {"{", "}", "[", "]", ":", ",", "-", "null", Garbage}
IsDigit(x) == \E i \in 1..10 : DigitLex[i] = x
DigitVal(x) == (CHOOSE i \in 1..10 : DigitLex[i] = x) - 1
IsStrLex(x) == ~IsDigit(x) /\ x \notin Punct

\* json.dump of a non-negative / negative integer: its decimal digits
RECURSIVE Digits(_)
Digits(n) ==
    IF n < 0 THEN <<"-">> \o Digits(0 - n)
    ELSE IF n < 10 THEN <<DigitLex[n + 1]>>
    ELSE Digits(n \div 10) \o <<DigitLex[(n % 10) + 1]>>

\* json.dump of one scalar value
DumpScalar(v) ==
    CASE v.kind = "null" -> <<"null">>
      [] v.kind = "num" -> Digits(v.num)
      [] OTHER -> <<v.str>>

\* json.dump(data, f, indent=2) of save_tokens' dict (auth.py:154-161)
Serialize(t) ==
    <<"{", "access_token", ":">> \o DumpScalar(t.access_token)
    \o <<",", "refresh_token", ":">> \o DumpScalar(t.refresh_token)
    \o <<",", "expires_at", ":">> \o DumpScalar(t.expires_at)
    \o <<"}">>

(***************************************************************************)
(* json.load (auth.py:178), for documents whose top level is a scalar, an  *)
(* empty list or an object of scalar members.                              *)
(***************************************************************************)
ParseErr == [ok |-> FALSE, val |-> NullV, next |-> 0]

\* the digits of a number starting at s[i]: the index after the last digit
RECURSIVE DigitsEnd(_, _)
DigitsEnd(s, i) ==
    IF i <= Len(s) /\ IsDigit(s[i]) THEN DigitsEnd(s, i + 1) ELSE i

RECURSIVE DigitsValue(_, _, _)
DigitsValue(s, i, j) ==
    IF j <= i THEN 0
    ELSE DigitsValue(s, i, j - 1) * 10 + DigitVal(s[j - 1])

\* an unsigned JSON number at s[i]: no leading zero before further digits
ParseUnsigned(s, i) ==
    IF i > Len(s) \/ ~IsDigit(s[i]) THEN ParseErr
    ELSE LET j == IF s[i] = "0" THEN i + 1 ELSE DigitsEnd(s, i)
         IN [ok |-> TRUE, val |-> Num(DigitsValue(s, i, j)), next |-> j]

\* a scalar JSON value at s[i]
ParseScalar(s, i) ==
    IF i > Len(s) THEN ParseErr
    ELSE IF s[i] = "null" THEN [ok |-> TRUE, val |-> NullV, next |-> i + 1]
    ELSE IF s[i] = "-" THEN
        LET u == ParseUnsigned(s, i + 1)
        IN IF u.ok THEN [ok |-> TRUE, val |-> Num(0 - u.val.num), next |-> u.next]
           ELSE ParseErr
    ELSE IF IsDigit(s[i]) THEN ParseUnsigned(s, i)
    ELSE IF IsStrLex(s[i]) THEN [ok |-> TRUE, val |-> Str(s[i]), next |-> i + 1]
    ELSE ParseErr

EmptyObj == [k \in {} |-> NullV]
\* dict assignment: a later duplicate key replaces the earlier value
PutKey(o, k, v) == [x \in (DOMAIN o) \cup {k} |-> IF x = k THEN v ELSE o[x]]

\* the members of an object after its "{" or after a ",": key ":" value ...
RECURSIVE ParseMembers(_, _, _)
ParseMembers(s, i, o) ==
    IF i + 1 > Len(s) \/ ~IsStrLex(s[i]) \/ s[i + 1] /= ":" THEN
        [ok |-> FALSE, obj |-> EmptyObj, next |-> 0]
    ELSE LET v == ParseScalar(s, i + 2)
         IN IF ~v.ok \/ v.next > Len(s) THEN
                [ok |-> FALSE, obj |-> EmptyObj, next |-> 0]
            ELSE IF s[v.next] = "}" THEN
                [ok |-> TRUE, obj |-> PutKey(o, s[i], v.val), next |-> v.next + 1]
            ELSE IF s[v.next] = "," THEN
                ParseMembers(s, v.next + 1, PutKey(o, s[i], v.val))
            ELSE [ok |-> FALSE, obj |-> EmptyObj, next |-> 0]

\* the whole document: kind "error" is json.JSONDecodeError, else the value
JsonLoad(s) ==
    LET Bad == [kind |-> "error", val |-> NullV, obj |-> EmptyObj]
        Whole(n, r) == IF n = Len(s) + 1 THEN r ELSE Bad
    IN IF Len(s) = 0 THEN Bad
       ELSE IF s[1] = "[" THEN
           IF Len(s) >= 2 /\ s[2] = "]"
           THEN Whole(3, [kind |-> "list", val |-> NullV, obj |-> EmptyObj])
           ELSE Bad
       ELSE IF s[1] = "{" THEN
           IF Len(s) >= 2 /\ s[2] = "}"
           THEN Whole(3, [kind |-> "dict", val |-> NullV, obj |-> EmptyObj])
           ELSE LET m == ParseMembers(s, 2, EmptyObj)
                IN IF m.ok
                   THEN Whole(m.next, [kind |-> "dict", val |-> NullV, obj |-> m.obj])
                   ELSE Bad
       ELSE LET v == ParseScalar(s, 1)
            IN IF v.ok
               THEN Whole(v.next, [kind |-> "scalar", val |-> v.val, obj |-> EmptyObj])
               ELSE Bad

(***************************************************************************)
(* State.                                                                  *)
(***************************************************************************)
VARIABLES
    AUTH_FILE,  \* the token file: [exists, content, mode]
    now,        \* time.time()
    ticks,      \* how often the clock may still advance
    pc,         \* pc[p]: where CLI process p stands in its current call
    fd,         \* fd[p]: the file object p holds open in save_tokens
    call,       \* call[p]: the call p is making, or made last
    prev,       \* prev[p]: the call p made before that
    left,       \* left[p]: calls p may still start
    loggedOut,  \* delete_tokens has returned and no token was stored since
    config,     \* the Config object a provider, collector or indexer was built with
    oauth,      \* what auth.get_access_token() would return to a provider
    _client,    \* AnthropicProvider._client
    sent,       \* the requests that reached client.messages.create
    root,       \* the directory tree a collector or indexer walks
    _index,     \* FileIndexer._index
    ret         \* the last call outside the token lifecycle and what it returned

authVars == <<AUTH_FILE, now, ticks, pc, fd, call, prev, left, loggedOut>>
otherVars == <<config, oauth, _client, sent, root, _index, ret>>
vars == <<authVars, otherVars>>

Procs == {1, 2}

(***************************************************************************)
(* File modes as sets of permission bits.                                  *)
(***************************************************************************)
AllBits == {"ur", "uw", "gr", "gw", "or", "ow"}
\* 0o600, auth.py:164
OwnerRW == {"ur", "uw"}
\* open(AUTH_FILE, "w") creates with 0o666 masked by the process umask
Umasks == {{"gw", "ow"}, {"gr", "gw", "or", "ow"}}

Absent == [exists |-> FALSE, content |-> <<>>, mode |-> {}]
File(c, m) == [exists |-> TRUE, content |-> c, mode |-> m]

(***************************************************************************)
(* Return values and exceptions of a call.                                 *)
(***************************************************************************)
Pending == [kind |-> "pending", val |-> NullV, exc |-> ""]
RetNone == [kind |-> "None", val |-> NullV, exc |-> ""]
RetTrue == [kind |-> "True", val |-> NullV, exc |-> ""]
RetFalse == [kind |-> "False", val |-> NullV, exc |-> ""]
RetToken == [kind |-> "TokenData", val |-> NullV, exc |-> ""]
Raise(e) == [kind |-> "raise", val |-> NullV, exc |-> e]
\* returning a Python value: a None value is the None result
RetValue(v) == IF v.kind = "null" THEN RetNone ELSE [kind |-> "value", val |-> v, exc |-> ""]

(***************************************************************************)
(* The token endpoint: any HTTP outcome, any JSON body of the three        *)
(* fields (auth.py:98-101, 131-134).                                       *)
(***************************************************************************)
NoResponse ==
    [status |-> "none", has_at |-> FALSE, at |-> NullV, has_rt |-> FALSE, rt |-> NullV,
     has_ei |-> FALSE, ei |-> 0]
OkResponse(hat, hrt, hei, e) ==
    [status |-> "ok", has_at |-> hat, at |-> IF hat THEN Str("a2") ELSE NullV,
     has_rt |-> hrt, rt |-> IF hrt THEN Str("r2") ELSE NullV,
     has_ei |-> hei, ei |-> IF hei THEN e ELSE 0]
ErrResponse(st) == [NoResponse EXCEPT !.status = st]
ExpiresIn == {60}
Responses ==
    {ErrResponse("HTTPStatusError"), ErrResponse("RequestError"),
     OkResponse(FALSE, TRUE, FALSE, 0), OkResponse(TRUE, TRUE, FALSE, 0)}
    \cup {OkResponse(TRUE, hrt, TRUE, e) : hrt \in BOOLEAN, e \in ExpiresIn}

(***************************************************************************)
(* The record of one call: its name and argument, what it read, what it    *)
(* sent, and how it ended.                                                 *)
(***************************************************************************)
NewCall(name, a, f) ==
    [name |-> name, arg |-> a, pre |-> f, loaded |-> NoToken, tcheck |-> 0 - 1,
     posts |-> 0, sent |-> NullV, resp |-> NoResponse, fresh |-> NoToken,
     exc |-> "", done |-> FALSE, ret |-> Pending, post |-> Absent]
NoCall == [NewCall("none", NoToken, Absent) EXCEPT !.done = TRUE]
\* what is kept of a call once the next one has started
Summary(c) == [c EXCEPT !.pre = Absent, !.post = Absent, !.resp = NoResponse, !.tcheck = 0 - 1]

(***************************************************************************)
(* Initial states: no token file, a file with a valid record, or a file    *)
(* with something else in it.                                              *)
(***************************************************************************)
InitExpiry == {300, 301, 3600}
InitRecords == {TokenData(Str("a1"), Str("r1"), Num(e)) : e \in InitExpiry}
Malformed ==
    { <<Garbage>>, <<"[", "]">>, <<"null">>,
      <<"{", "access_token", ":", "a1", "}">>,
      Serialize(TokenData(Str("a1"), Str("r1"), Str("soon"))) }
InitFiles ==
    {Absent}
    \cup {File(Serialize(t), OwnerRW) : t \in InitRecords}
    \cup {File(c, OwnerRW) : c \in Malformed}
    \cup {File(Serialize(TokenData(Str("a1"), Str("r1"), Num(3600))), AllBits \ {"gw", "ow"})}

\* no provider, collector or indexer exists
NoRet == [name |-> "none"]
NoOthers ==
    /\ config = NullV
    /\ oauth = NullV
    /\ _client = NullV
    /\ sent = <<>>
    /\ root = {}
    /\ _index = <<>>
    /\ ret = NoRet

\* nothing is running yet
Idle ==
    /\ NoOthers
    /\ now = 0
    /\ pc = [p \in Procs |-> "idle"]
    /\ fd = [p \in Procs |-> "closed"]
    /\ call = [p \in Procs |-> NoCall]
    /\ prev = [p \in Procs |-> NoCall]
    /\ loggedOut = FALSE

\* one CLI process at a time: process 1 makes MaxOps calls, each to its end
Init ==
    /\ AUTH_FILE \in InitFiles
    /\ Idle
    /\ ticks = MaxTicks
    /\ left = [p \in Procs |-> IF p = 1 THEN MaxOps ELSE 0]

\* two CLI processes on the same token file, ConcOps calls each
ConcFiles ==
    {Absent, File(Serialize(TokenData(Str("a1"), Str("r1"), Num(300))), OwnerRW)}
InitConc ==
    /\ AUTH_FILE \in ConcFiles
    /\ Idle
    /\ ticks = MaxTicks - 1
    /\ left = [p \in Procs |-> ConcOps]

(***************************************************************************)
(* The clock.                                                              *)
(***************************************************************************)
TickDeltas == {1, 3300}
\* where a process is about to read time.time() (auth.py:104, 137, 211)
ReadsClock == {"gat_check", "refresh_post", "exchange_post"}
\* the clock advances; only the steps that read it can tell when
Tick ==
    /\ ticks > 0
    /\ \E p \in Procs : pc[p] \in ReadsClock
    /\ \E d \in TickDeltas : now' = now + d
    /\ ticks' = ticks - 1
    /\ UNCHANGED <<AUTH_FILE, pc, fd, call, prev, left, loggedOut>>
    /\ UNCHANGED otherVars

(***************************************************************************)
(* Starting and ending a call.                                             *)
(***************************************************************************)
Begin(p, name, a, first) ==
    /\ pc[p] = "idle"
    /\ left[p] > 0
    /\ left' = [left EXCEPT ![p] = @ - 1]
    /\ prev' = [prev EXCEPT ![p] = Summary(call[p])]
    /\ call' = [call EXCEPT ![p] = NewCall(name, a, AUTH_FILE)]
    /\ pc' = [pc EXCEPT ![p] = first]
    /\ UNCHANGED <<AUTH_FILE, now, ticks, fd, loggedOut>>
    /\ UNCHANGED otherVars

\* the calls that store a token record when they return normally
Storing == {"complete_login", "import_tokens", "save_tokens"}

\* the call of p ends with result r, the token file being f
Return(p, c, r, f) ==
    /\ call' = [call EXCEPT ![p] =
                  [c EXCEPT !.done = TRUE, !.ret = r, !.post = f,
                            !.exc = IF r.kind = "raise" THEN r.exc ELSE @]]
    /\ pc' = [pc EXCEPT ![p] = "idle"]
    /\ loggedOut' =
         IF c.name = "delete_tokens" /\ r.kind /= "raise" THEN TRUE
         ELSE IF c.name \in Storing /\ r.kind /= "raise" THEN FALSE
         ELSE loggedOut
    /\ UNCHANGED otherVars

\* the call of p goes on at label
Goto(p, c, label) ==
    /\ call' = [call EXCEPT ![p] = c]
    /\ pc' = [pc EXCEPT ![p] = label]
    /\ UNCHANGED loggedOut
    /\ UNCHANGED otherVars

\* is_authenticated (auth.py:228-234): get_access_token() is not None
is_authenticated(r) ==
    IF r.kind = "raise" THEN r
    ELSE IF r.kind = "None" THEN RetFalse ELSE RetTrue

\* the result of get_access_token, seen through the function p called
Outcome(c, r) == IF c.name = "is_authenticated" THEN is_authenticated(r) ELSE r

Start_get_access_token(p) == Begin(p, "get_access_token", NoToken, "load_exists")
Start_is_authenticated(p) == Begin(p, "is_authenticated", NoToken, "load_exists")
Start_load_tokens(p) == Begin(p, "load_tokens", NoToken, "load_exists")
Start_delete_tokens(p) == Begin(p, "delete_tokens", NoToken, "delete_exists")

Start_complete_login(p) == Begin(p, "complete_login", NoToken, "exchange_post")
Start_import_tokens(p) == Begin(p, "import_tokens", NoToken, "import_read")

\* the records a caller hands to save_tokens
SaveArgs ==
    {TokenData(Str("a3"), Str("r3"), Num(0)), TokenData(Str("a5"), Str("r5"), Num(3600))}
Start_save_tokens(p) == \E t \in SaveArgs : Begin(p, "save_tokens", t, "save_open")

(***************************************************************************)
(* load_tokens (auth.py:167-185).                                          *)
(***************************************************************************)
TokenKeys == {"access_token", "refresh_token", "expires_at"}

\* lines 176-185 on the text of an existing file: the TokenData, None for
\* the two exceptions caught, or the exception that escapes
LoadResult(content) ==
    LET d == JsonLoad(content)
    IN IF d.kind = "error" THEN [ret |-> RetNone, tok |-> NoToken]
       ELSE IF d.kind /= "dict" THEN [ret |-> Raise("TypeError"), tok |-> NoToken]
       ELSE IF ~(TokenKeys \subseteq DOMAIN d.obj) THEN [ret |-> RetNone, tok |-> NoToken]
       ELSE [ret |-> RetToken,
             tok |-> TokenData(d.obj["access_token"], d.obj["refresh_token"],
                               d.obj["expires_at"])]

\* load_tokens has returned t to the function that called it
AfterLoad(p, c, t) ==
    IF c.name = "load_tokens"
    THEN Return(p, [c EXCEPT !.loaded = t], IF t.some THEN RetToken ELSE RetNone, AUTH_FILE)
    ELSE Goto(p, [c EXCEPT !.loaded = t], "gat_check")

\* line 173: AUTH_FILE.exists()
load_tokens_exists(p) ==
    /\ pc[p] = "load_exists"
    /\ IF AUTH_FILE.exists
       THEN Goto(p, call[p], "load_read")
       ELSE AfterLoad(p, call[p], NoToken)
    /\ UNCHANGED <<AUTH_FILE, now, ticks, fd, prev, left>>

\* lines 176-185: open, json.load, the three keys
load_tokens_read(p) ==
    /\ pc[p] = "load_read"
    /\ IF ~AUTH_FILE.exists
       THEN Return(p, call[p], Raise("FileNotFoundError"), AUTH_FILE)
       ELSE LET r == LoadResult(AUTH_FILE.content)
            IN IF r.ret.kind = "raise"
               THEN Return(p, call[p], r.ret, AUTH_FILE)
               ELSE AfterLoad(p, call[p], r.tok)
    /\ UNCHANGED <<AUTH_FILE, now, ticks, fd, prev, left>>

(***************************************************************************)
(* get_access_token (auth.py:200-225).                                     *)
(***************************************************************************)
\* the comparison with > where line 211 has >=
IsExpiring_strict(t, e) == t > e - EXPIRY_BUFFER
\* line 211: time.time() >= token_data.expires_at - 300
IsExpiring(t, e) == t >= e - EXPIRY_BUFFER

\* the two httpx handlers alone, without the "except Exception" of line 221
OnRefreshError_narrow(e) ==
    IF e \in {"HTTPStatusError", "RequestError"} THEN RetNone ELSE Raise(e)
\* lines 215-223: every exception of the try block ends in "return None"
OnRefreshError(e) == RetNone

\* the loaded record kept, as if line 213 assigned nothing
Current_stale(old, new) == old
\* line 213: token_data is rebound to the refreshed record
Current(old, new) == new

\* lines 207-211, and 225 when no refresh is due
get_access_token_check(p) ==
    /\ pc[p] = "gat_check"
    /\ LET c == call[p]
           t == c.loaded
       IN IF ~t.some THEN Return(p, c, Outcome(c, RetNone), AUTH_FILE)
          ELSE IF t.expires_at.kind /= "num"
          THEN Return(p, c, Raise("TypeError"), AUTH_FILE)
          ELSE IF IsExpiring(now, t.expires_at.num)
          THEN Goto(p, [c EXCEPT !.tcheck = now], "refresh_post")
          ELSE Return(p, [c EXCEPT !.tcheck = now],
                      Outcome(c, RetValue(t.access_token)), AUTH_FILE)
    /\ UNCHANGED <<AUTH_FILE, now, ticks, fd, prev, left>>

(***************************************************************************)
(* refresh_tokens (auth.py:113-143) and exchange_code (auth.py:77-110).    *)
(***************************************************************************)
\* lines 103-104, 136-137
ExpiresAt(resp, t) == t + (IF resp.has_ei THEN resp.ei ELSE DEFAULT_EXPIRES_IN)

\* the response's refresh_token taken whether present or not
RefreshTokenOf_dropped(resp, rt) == resp.rt
\* line 141: token_data.get("refresh_token", refresh_token)
RefreshTokenOf(resp, rt) == IF resp.has_rt THEN resp.rt ELSE rt

\* token_data.get("access_token") where line 140 has token_data["access_token"]
RefreshRaises_unchecked_key(resp) == IF resp.status /= "ok" THEN resp.status ELSE ""
\* refresh_tokens raises: raise_for_status, the transport, a missing key
RefreshRaises(resp) ==
    IF resp.status /= "ok" THEN resp.status
    ELSE IF ~resp.has_at THEN "KeyError" ELSE ""

\* no raise_for_status and no required key: every response is used
ExchangeRaises_unchecked(resp) == ""
\* exchange_code raises: raise_for_status, the transport, a missing key
ExchangeRaises(resp) ==
    IF resp.status /= "ok" THEN resp.status
    ELSE IF ~resp.has_at \/ ~resp.has_rt THEN "KeyError" ELSE ""

\* line 213, with the POST of lines 131-134
refresh_tokens_post(p) ==
    /\ pc[p] = "refresh_post"
    /\ \E resp \in Responses :
         LET rt == call[p].loaded.refresh_token
             c == [call[p] EXCEPT !.posts = @ + 1, !.sent = rt, !.resp = resp]
             e == RefreshRaises(resp)
         IN IF e /= ""
            THEN Return(p, [c EXCEPT !.exc = e], Outcome(c, OnRefreshError(e)), AUTH_FILE)
            ELSE Goto(p, [c EXCEPT !.fresh = TokenData(resp.at, RefreshTokenOf(resp, rt),
                                                      Num(ExpiresAt(resp, now)))],
                      "save_open")
    /\ UNCHANGED <<AUTH_FILE, now, ticks, fd, prev, left>>

\* complete_login line 279, with the POST of lines 98-101
exchange_code_post(p) ==
    /\ pc[p] = "exchange_post"
    /\ \E resp \in Responses :
         LET c == [call[p] EXCEPT !.posts = @ + 1, !.resp = resp]
             e == ExchangeRaises(resp)
         IN IF e /= ""
            THEN Return(p, c, Raise(e), AUTH_FILE)
            ELSE Goto(p, [c EXCEPT !.fresh = TokenData(resp.at, resp.rt,
                                                      Num(ExpiresAt(resp, now)))],
                      "save_open")
    /\ UNCHANGED <<AUTH_FILE, now, ticks, fd, prev, left>>

(***************************************************************************)
(* save_tokens (auth.py:146-164), in the three steps another process can   *)
(* observe: open(AUTH_FILE, "w"), the write of the JSON text when the file *)
(* object is closed, and the chmod.                                        *)
(***************************************************************************)
\* the record being saved: the caller's argument, or the one just obtained
ToSave(c) == IF c.name = "save_tokens" THEN c.arg ELSE c.fresh

\* a mode that does not truncate ("r+")
OpenW_keep(content) == content
\* mode "w" truncates an existing file
OpenW(content) == <<>>

\* the text is written from offset 0 of the file object and replaces what
\* is there; whatever lies beyond its end stays
WriteAt0(content, data) ==
    data \o (IF Len(content) > Len(data)
             THEN SubSeq(content, Len(data) + 1, Len(content)) ELSE <<>>)

\* 0o644, the mode a umask of 0o022 leaves when no chmod follows
SaveMode_umask == AllBits \ {"gw", "ow"}
\* line 164: AUTH_FILE.chmod(0o600)
SaveMode == OwnerRW

\* save_tokens raised e in call c
SaveFailed(p, c, e, f) ==
    IF c.name \in {"get_access_token", "is_authenticated"}
    THEN Return(p, [c EXCEPT !.exc = e], Outcome(c, OnRefreshError(e)), f)
    ELSE IF c.name = "import_tokens" THEN Return(p, c, Raise("Exit"), f)
    ELSE Return(p, c, Raise(e), f)

\* save_tokens returned in call c
SaveDone(p, c, f) ==
    IF c.name \in {"get_access_token", "is_authenticated"}
    THEN Return(p, c, Outcome(c, RetValue(Current(c.loaded, c.fresh).access_token)), f)
    ELSE IF c.name = "complete_login" THEN Return(p, c, RetToken, f)
    ELSE Return(p, c, RetNone, f)

\* line 160: open(AUTH_FILE, "w"); it fails (OSError) or creates/truncates
save_tokens_open(p) ==
    /\ pc[p] = "save_open"
    /\ \/ /\ SaveFailed(p, call[p], "OSError", AUTH_FILE)
          /\ UNCHANGED <<AUTH_FILE, fd>>
       \/ /\ IF AUTH_FILE.exists
             THEN AUTH_FILE' = [AUTH_FILE EXCEPT !.content = OpenW(@)]
             ELSE \E um \in Umasks : AUTH_FILE' = File(<<>>, AllBits \ um)
          /\ fd' = [fd EXCEPT ![p] = "linked"]
          /\ Goto(p, call[p], "save_write")
    /\ UNCHANGED <<now, ticks, prev, left>>

\* line 161 and the end of the with block: the text reaches the file in
\* one write, or the write fails (OSError) and nothing is written
save_tokens_write(p) ==
    /\ pc[p] = "save_write"
    /\ fd' = [fd EXCEPT ![p] = "closed"]
    /\ \/ /\ SaveFailed(p, call[p], "OSError", AUTH_FILE)
          /\ UNCHANGED AUTH_FILE
       \/ /\ IF fd[p] = "linked"
             THEN AUTH_FILE' = [AUTH_FILE EXCEPT
                                  !.content = WriteAt0(@, Serialize(ToSave(call[p])))]
             ELSE UNCHANGED AUTH_FILE
          /\ Goto(p, call[p], "save_chmod")
    /\ UNCHANGED <<now, ticks, prev, left>>

\* line 164: chmod by path
save_tokens_chmod(p) ==
    /\ pc[p] = "save_chmod"
    /\ IF AUTH_FILE.exists
       THEN /\ AUTH_FILE' = [AUTH_FILE EXCEPT !.mode = SaveMode]
            /\ SaveDone(p, call[p], AUTH_FILE')
       ELSE /\ UNCHANGED AUTH_FILE
            /\ SaveFailed(p, call[p], "FileNotFoundError", AUTH_FILE)
    /\ UNCHANGED <<now, ticks, fd, prev, left>>

(***************************************************************************)
(* delete_tokens (auth.py:188-197).                                        *)
(***************************************************************************)
\* the file left in place
Unlink_noop(f) == f
\* line 195: AUTH_FILE.unlink()
Unlink(f) == Absent

\* line 194
delete_tokens_exists(p) ==
    /\ pc[p] = "delete_exists"
    /\ IF AUTH_FILE.exists
       THEN Goto(p, call[p], "delete_unlink")
       ELSE Return(p, call[p], RetFalse, AUTH_FILE)
    /\ UNCHANGED <<AUTH_FILE, now, ticks, fd, prev, left>>

\* lines 195-196; file objects open on the unlinked file lose the path
delete_tokens_unlink(p) ==
    /\ pc[p] = "delete_unlink"
    /\ IF AUTH_FILE.exists
       THEN /\ AUTH_FILE' = Unlink(AUTH_FILE)
            /\ fd' = [q \in Procs |-> IF fd[q] = "linked" /\ ~AUTH_FILE'.exists
                                      THEN "orphan" ELSE fd[q]]
            /\ Return(p, call[p], RetTrue, AUTH_FILE')
       ELSE /\ UNCHANGED <<AUTH_FILE, fd>>
            /\ Return(p, call[p], Raise("FileNotFoundError"), AUTH_FILE)
    /\ UNCHANGED <<now, ticks, prev, left>>

(***************************************************************************)
(* flow auth import (commands/auth.py:65-117).                             *)
(***************************************************************************)
\* Python truthiness, and "a or b"
Truthy(v) == (v.kind = "str" /\ v.str /= "") \/ (v.kind = "num" /\ v.num /= 0)
Or(a, b) == IF Truthy(a) THEN a ELSE b

\* an expiry of the credentials file: the number q * 1000 + r (0 <= r < 1000),
\* which may be epoch milliseconds, or a string, or None
Expiry(q, r) == [kind |-> "num", q |-> q, r |-> r, str |-> ""]
NoExpiry == [kind |-> "null", q |-> 0, r |-> 0, str |-> ""]
ExpiryTruthy(e) ==
    \/ e.kind = "num" /\ (e.q /= 0 \/ e.r /= 0)
    \/ e.kind = "str" /\ e.str /= ""

\* the credentials object (line 87); a key that is absent reads as None
Creds(cat, cace, crt, cref, cexp, cexpat) ==
    [found |-> TRUE, accessToken |-> cat, access_token |-> cace, refreshToken |-> crt,
     refresh_token |-> cref, expiresAt |-> cexp, expires_at |-> cexpat]
NoCreds == [Creds(NullV, NullV, NullV, NullV, NoExpiry, NoExpiry) EXCEPT !.found = FALSE]
CredFiles ==
    { NoCreds,
      Creds(Str("a4"), NullV, Str("r4"), NullV, Expiry(1000003600, 0), NoExpiry),
      Creds(NullV, Str("a4"), NullV, Str("r4"), NoExpiry, Expiry(3, 600)),
      Creds(NullV, Str("a4"), NullV, Str("r4"), NoExpiry, NoExpiry),
      Creds(Str("a4"), NullV, NullV, NullV, Expiry(3, 600), NoExpiry) }

\* every expiry taken for milliseconds
IsMillis_always(e) == TRUE
\* line 99: expires_at > 1e12
IsMillis(e) == e.q > MS_THRESHOLD_K \/ (e.q = MS_THRESHOLD_K /\ e.r > 0)

\* lines 99-100 and "expires_at or 0" of line 105, for a number or None
ImportExpiry(e) ==
    IF ~ExpiryTruthy(e) THEN Num(0)
    ELSE IF IsMillis(e) THEN Num(e.q) ELSE Num(e.q * 1000 + e.r)

\* line 100 is Python's true division: the thousandths of a second that
\* ImportExpiry leaves out (0 for a millisecond value of whole seconds)
ImportFrac(e) == IF e.kind = "num" /\ ExpiryTruthy(e) /\ IsMillis(e) THEN e.r ELSE 0

\* lines 89-106: the record to save, or NoToken when the command exits
ImportRecord(cr) ==
    LET a == Or(cr.accessToken, cr.access_token)
        r == Or(cr.refreshToken, cr.refresh_token)
        e == IF ExpiryTruthy(cr.expiresAt) THEN cr.expiresAt ELSE cr.expires_at
    IN IF ~cr.found \/ ~Truthy(a) \/ ~Truthy(r) \/ (e.kind = "str" /\ ExpiryTruthy(e))
       THEN NoToken
       ELSE TokenData(a, r, ImportExpiry(e))

\* lines 72-106
import_tokens_read(p) ==
    /\ pc[p] = "import_read"
    /\ \E cr \in CredFiles :
         LET t == ImportRecord(cr)
         IN IF t.some
            THEN Goto(p, [call[p] EXCEPT !.fresh = t], "save_open")
            ELSE Return(p, call[p], Raise("Exit"), AUTH_FILE)
    /\ UNCHANGED <<AUTH_FILE, now, ticks, fd, prev, left>>

(***************************************************************************)
(* One step of CLI process p; the specifications.                          *)
(***************************************************************************)
Step(p) ==
    \/ Start_get_access_token(p)
    \/ Start_is_authenticated(p)
    \/ Start_load_tokens(p)
    \/ Start_save_tokens(p)
    \/ Start_delete_tokens(p)
    \/ Start_complete_login(p)
    \/ Start_import_tokens(p)
    \/ load_tokens_exists(p)
    \/ load_tokens_read(p)
    \/ get_access_token_check(p)
    \/ refresh_tokens_post(p)
    \/ exchange_code_post(p)
    \/ save_tokens_open(p)
    \/ save_tokens_write(p)
    \/ save_tokens_chmod(p)
    \/ delete_tokens_exists(p)
    \/ delete_tokens_unlink(p)
    \/ import_tokens_read(p)

Next == Tick \/ \E p \in Procs : Step(p)
Spec == Init /\ [][Next]_vars
SpecConc == InitConc /\ [][Next]_vars

(***************************************************************************)
(* Properties.                                                             *)
(***************************************************************************)
\* a finished call of get_access_token, directly or through is_authenticated
ViaGetAccessToken(c) == c.name \in {"get_access_token", "is_authenticated"}
GatDone(c) == c.done /\ ViaGetAccessToken(c)
\* a finished call in which the refresh and the save both went through
Refreshed(c) == GatDone(c) /\ c.posts = 1 /\ c.exc = ""
\* the record a token file holds, NoToken if it holds none
Stored(f) == IF f.exists THEN LoadResult(f.content).tok ELSE NoToken

\* C1: get_access_token with a stored record whose expires_at is more than
\* 300 seconds after the clock returns the stored access token and never
\* calls refresh_tokens; with expires_at at most 300 seconds after the clock
\* (or past) it calls refresh_tokens exactly once, with the stored refresh
\* token, and in no state of the call has it made a second call.
C1_ExpiryDecidesRefresh ==
    \A p \in Procs :
      LET c == call[p]
          t == c.loaded
      IN /\ ViaGetAccessToken(c) => c.posts <= 1
         /\ (GatDone(c) /\ t.some /\ t.expires_at.kind = "num") =>
              /\ t.expires_at.num - c.tcheck > 300 =>
                   /\ c.posts = 0
                   /\ c.name = "get_access_token" => c.ret = RetValue(t.access_token)
              /\ t.expires_at.num - c.tcheck <= 300 =>
                   /\ c.posts = 1
                   /\ c.sent = t.refresh_token

\* C1 witness: a call that found the expiry exactly 300 seconds ahead and refreshed
C1_Witness ==
    \E p \in Procs :
      /\ GatDone(call[p]) /\ call[p].loaded.some
      /\ call[p].loaded.expires_at.kind = "num"
      /\ call[p].loaded.expires_at.num - call[p].tcheck = 300
      /\ call[p].posts = 1

\* C2: a refresh attempt that fails (HTTP status error, network error, or any
\* other exception while refreshing or saving) never makes get_access_token
\* raise: the call returns None, as it does when no token is stored.
C2_RefreshFailureIsNone ==
    \A p \in Procs :
      LET c == call[p]
      IN (c.done /\ c.name = "get_access_token" /\ c.posts >= 1) =>
           /\ c.ret.kind /= "raise"
           /\ c.exc /= "" => c.ret = RetNone

\* C2 witness: the refreshed record could not be saved, and the call returned None
C2_Witness ==
    \E p \in Procs :
      /\ call[p].done /\ call[p].name = "get_access_token"
      /\ call[p].posts = 1 /\ call[p].exc = "OSError" /\ call[p].fresh.some
      /\ call[p].ret = RetNone

\* C3: when get_access_token refreshes an expiring token successfully, it
\* returns the access token of the response, the token file then holds
\* exactly the refreshed record, a following load_tokens returns it, and a
\* following get_access_token does not refresh again while the new expiry is
\* more than 300 seconds ahead.
C3_RefreshedRecordPersisted ==
    LET c == call[1]
        b == prev[1]
    IN /\ (Refreshed(c) /\ c.name = "get_access_token") =>
            /\ c.ret = RetValue(c.resp.at)
            /\ c.fresh.access_token = c.resp.at
            /\ c.fresh.expires_at.kind = "num"
            /\ Stored(c.post) = c.fresh
       /\ (Refreshed(b) /\ c.done /\ c.name = "load_tokens") =>
            /\ c.ret = RetToken
            /\ c.loaded = b.fresh
       /\ (Refreshed(b) /\ GatDone(c) /\ b.fresh.expires_at.num - c.tcheck > 300) =>
            /\ c.posts = 0
            /\ c.name = "get_access_token" => c.ret = RetValue(b.fresh.access_token)

\* C3 witness: a refresh, then a second get_access_token that returned the new token
C3_Witness ==
    /\ Refreshed(prev[1]) /\ prev[1].name = "get_access_token"
    /\ call[1].done /\ call[1].name = "get_access_token"
    /\ call[1].posts = 0
    /\ call[1].ret = RetValue(Str("a2"))

\* C4: after a successful refresh the stored refresh token is the one the
\* response carries, or, when the response carries none, the one that was
\* sent; so a refresh changes the stored refresh token only when the backend
\* issued a new one.
C4_RefreshTokenKept ==
    LET c == call[1]
    IN Refreshed(c) =>
         /\ Stored(c.post).some
         /\ c.sent = Stored(c.pre).refresh_token
         /\ c.resp.has_rt => Stored(c.post).refresh_token = c.resp.rt
         /\ ~c.resp.has_rt => Stored(c.post).refresh_token = c.sent
         /\ Stored(c.post).refresh_token /= Stored(c.pre).refresh_token => c.resp.has_rt

\* C4 witness: a response without refresh_token; the stored one is still the old one
C4_Witness ==
    /\ Refreshed(call[1]) /\ ~call[1].resp.has_rt
    /\ Stored(call[1].post).refresh_token = Str("r1")
    /\ Stored(call[1].post).access_token = Str("a2")

\* a token file text that is a well-formed token record: a JSON object with
\* access_token, refresh_token and a numeric expires_at
WellFormed(content) ==
    LET d == JsonLoad(content)
    IN /\ d.kind = "dict"
       /\ TokenKeys \subseteq DOMAIN d.obj
       /\ d.obj["expires_at"].kind = "num"

\* C5: a token file whose content is not a well-formed token record is
\* treated like an absent file: load_tokens and get_access_token return
\* None and do not raise.
C5_MalformedIsAbsent ==
    LET c == call[1]
    IN (c.done /\ c.name \in {"load_tokens", "get_access_token"}
          /\ c.pre.exists /\ ~WellFormed(c.pre.content)) =>
         c.ret = RetNone

\* C6: save_tokens(t) immediately followed by load_tokens() returns a record
\* equal to t in access_token, refresh_token and expires_at, whatever the
\* token file held before.
C6_SaveLoadRoundTrip ==
    LET c == call[1]
        b == prev[1]
    IN (c.done /\ c.name = "load_tokens" /\ b.name = "save_tokens" /\ b.ret = RetNone) =>
         /\ c.ret = RetToken
         /\ c.loaded.access_token = b.arg.access_token
         /\ c.loaded.refresh_token = b.arg.refresh_token
         /\ c.loaded.expires_at = b.arg.expires_at

\* C6 witness: a record saved over an existing file and loaded back
C6_Witness ==
    /\ call[1].done /\ call[1].name = "load_tokens"
    /\ prev[1].name = "save_tokens" /\ prev[1].ret = RetNone
    /\ call[1].loaded = TokenData(Str("a3"), Str("r3"), Num(0))
    /\ AUTH_FILE \notin InitFiles

\* C7: when save_tokens returns, the token file's permission bits are exactly
\* owner read and write, whether the file was created by the call or existed
\* with another mode.
C7_SavedModeOwnerOnly ==
    \A p \in Procs :
      LET c == call[p]
      IN (c.done /\ c.name = "save_tokens" /\ c.ret = RetNone) =>
           /\ c.post.exists
           /\ c.post.mode = {"ur", "uw"}

\* C7 witness: save_tokens returned on a file that was group and world readable
C7_Witness ==
    /\ call[1].done /\ call[1].name = "save_tokens" /\ call[1].ret = RetNone
    /\ call[1].pre.exists /\ "gr" \in call[1].pre.mode /\ "or" \in call[1].pre.mode

\* the result of a call that reports "unauthenticated"
Unauthenticated(c) ==
    c.ret = (IF c.name = "is_authenticated" THEN RetFalse ELSE RetNone)

\* C8: delete_tokens returns True exactly when the token file existed before
\* the call and False otherwise, no token file exists after it, and in a
\* single-process run every later load_tokens, get_access_token and
\* is_authenticated reports unauthenticated until a call that stores a token
\* (complete_login, import) has succeeded.
C8_LogoutUnauthenticates ==
    LET c == call[1]
    IN /\ (c.done /\ c.name = "delete_tokens") =>
            /\ c.ret = (IF c.pre.exists THEN RetTrue ELSE RetFalse)
            /\ ~c.post.exists
       /\ (loggedOut /\ c.done
             /\ c.name \in {"load_tokens", "get_access_token", "is_authenticated"}) =>
            Unauthenticated(c)

\* C8 witness: tokens deleted, then get_access_token returned None
C8_Witness ==
    /\ prev[1].name = "delete_tokens" /\ prev[1].ret = RetTrue
    /\ call[1].done /\ call[1].name = "get_access_token" /\ call[1].ret = RetNone
    /\ loggedOut

\* C9: complete_login makes exactly one code exchange; when the call returns,
\* the token file holds exactly the record it returns, built from the
\* response; when the exchange fails, the error reaches the caller unchanged
\* and the token file is as it was before the call.
C9_CompleteLogin ==
    LET c == call[1]
    IN /\ c.name = "complete_login" => c.posts <= 1
       /\ (c.done /\ c.name = "complete_login") =>
            /\ c.posts = 1
            /\ c.ret = RetToken =>
                 /\ c.resp.status = "ok"
                 /\ c.fresh.access_token = c.resp.at
                 /\ c.fresh.refresh_token = c.resp.rt
                 /\ Stored(c.post) = c.fresh
            /\ c.resp.status /= "ok" =>
                 /\ c.ret = Raise(c.resp.status)
                 /\ c.post = c.pre
            /\ (c.resp.status = "ok" /\ ~(c.resp.has_at /\ c.resp.has_rt)) =>
                 /\ c.ret.kind = "raise"
                 /\ c.post = c.pre

\* C9 witness: the exchange failed with an HTTP error over an existing record
C9_Witness ==
    /\ call[1].done /\ call[1].name = "complete_login"
    /\ call[1].resp.status = "HTTPStatusError"
    /\ call[1].pre.exists /\ Stored(call[1].pre).some
    /\ call[1].post = call[1].pre

\* C10: when two CLI processes both run get_access_token on the same token
\* file, each loading, refreshing and saving, both complete without error and
\* the token file finally holds exactly the complete record one of them
\* saved, never a merged, truncated or unparsable one.
C10_LastWriterWins ==
    (\A p \in Procs : Refreshed(call[p]) /\ call[p].name = "get_access_token") =>
      /\ \A p \in Procs : call[p].ret.kind = "value"
      /\ AUTH_FILE.exists
      /\ \E p \in Procs : AUTH_FILE.content = Serialize(call[p].fresh)

(***************************************************************************)
(* The Anthropic provider (providers/anthropic.py).  A provider is built   *)
(* with a Config whose anthropic.api_key is None, empty or a key; oauth is *)
(* what auth.get_access_token() would return in the same environment.      *)
(***************************************************************************)
\* calls made on one provider
MaxCalls == 2

ProviderConfig(k) == [api_key |-> k]

\* generate's arguments (anthropic.py:46-52): prompt, system, context
Optional == {NullV, Str(""), Str("x")}
\* what messages.create answers: content blocks, or an API error
ApiAnswers ==
    { <<>>, <<[type |-> "text", text |-> "Generated code"]>>,
      <<[type |-> "tool_use", text |-> ""], [type |-> "text", text |-> "Generated code"]>>,
      <<[type |-> "text", text |-> "Generated "], [type |-> "text", text |-> "code"]>> }

\* anthropic.py:64-81  the request: the context wraps the prompt when truthy
UserContent(prompt, context) ==
    IF Truthy(context) THEN <<"<context>\n", context.str, "\n</context>\n\n", prompt>>
    ELSE <<prompt>>
Request(prompt, system, context) ==
    [messages |-> <<[role |-> "user", content |-> UserContent(prompt, context)]>>,
     system |-> IF Truthy(system) THEN system ELSE NullV]

\* anthropic.py:85-89  the text blocks' text, in order
RECURSIVE TextOf(_)
TextOf(blocks) ==
    IF blocks = <<>> THEN <<>>
    ELSE (IF Head(blocks).type = "text" THEN <<Head(blocks).text>> ELSE <<>>)
         \o TextOf(Tail(blocks))

\* anthropic.py:39-44  is_available: the api key is not None
Available(k, tok) == k # NullV

\* anthropic.py:25-31  the client property has nothing to build a client from
ClientRaises(k, tok) == ~Truthy(k)

InitProvider ==
    /\ AUTH_FILE = Absent /\ ticks = 0 /\ left = [p \in Procs |-> 0]
    /\ now = 0
    /\ pc = [p \in Procs |-> "idle"]
    /\ fd = [p \in Procs |-> "closed"]
    /\ call = [p \in Procs |-> NoCall]
    /\ prev = [p \in Procs |-> NoCall]
    /\ loggedOut = FALSE
    /\ config \in {ProviderConfig(k) : k \in {NullV, Str(""), Str("test-key")}}
    /\ oauth \in {NullV, Str("oauth-token")}
    /\ _client = NullV
    /\ sent = <<>>
    /\ root = {}
    /\ _index = <<>>
    /\ ret = [name |-> "none", calls |-> 0]

is_available ==
    /\ ret.calls < MaxCalls
    /\ ret' = [name |-> "is_available", calls |-> ret.calls + 1,
               value |-> Available(config.api_key, oauth)]
    /\ UNCHANGED <<authVars, config, oauth, _client, sent, root, _index>>

\* anthropic.py:46-98  generate, the client property (22-33) included
generate ==
    /\ ret.calls < MaxCalls
    /\ \E prompt \in {"Write a function", "Explain"}, system \in Optional, context \in Optional :
         IF _client = NullV /\ ClientRaises(config.api_key, oauth)
         THEN /\ ret' = [name |-> "generate", calls |-> ret.calls + 1,
                         exc |-> "ValueError", content |-> <<>>]
              /\ UNCHANGED <<_client, sent>>
         ELSE /\ _client' = IF _client = NullV THEN config.api_key ELSE _client
              /\ sent' = Append(sent, Request(prompt, system, context))
              /\ \/ \E blocks \in ApiAnswers :
                      ret' = [name |-> "generate", calls |-> ret.calls + 1,
                              exc |-> "", content |-> TextOf(blocks)]
                 \/ ret' = [name |-> "generate", calls |-> ret.calls + 1,
                            exc |-> "APIError", content |-> <<>>]
    /\ UNCHANGED <<authVars, config, oauth, root, _index>>

NextProvider == is_available \/ generate
SpecProvider == InitProvider /\ [][NextProvider]_vars

\* C11: with no API key configured and an OAuth token obtainable from
\* get_access_token(), is_available() returns True and generate() issues the
\* inference request instead of raising the missing-credential error;
\* is_available() returns False only when neither credential exists.
C11_OAuthMakesUsable ==
    /\ ret.name = "is_available" =>
         (ret.value = FALSE <=> (config.api_key = NullV /\ oauth = NullV))
    /\ (ret.name = "generate" /\ config.api_key = NullV /\ oauth # NullV) =>
         (ret.exc # "ValueError" /\ sent # <<>>)

(***************************************************************************)
(* The three places that create a token record, each as one call on its    *)
(* inputs: exchange_code (auth.py:77-110), refresh_tokens (auth.py:113-143)*)
(* and flow auth import (commands/auth.py:65-117), for every response of   *)
(* the token endpoint and every credentials file, at any clock value.      *)
(***************************************************************************)
\* the endpoint's responses with expires_in negative, zero or positive
AnyResponses ==
    Responses
    \cup {OkResponse(TRUE, hrt, TRUE, e) : hrt \in BOOLEAN, e \in {0 - 60, 0, 60, 7200}}
\* credentials files: both spellings of the keys, expiries in seconds and in
\* milliseconds (of whole seconds or not), none, zero, or a string
AnyExpiry ==
    {NoExpiry, Expiry(0, 0), Expiry(3, 600), Expiry(1700003, 600),
     Expiry(1700003600, 0), Expiry(1700003600, 250), Expiry(MS_THRESHOLD_K, 1),
     [NoExpiry EXCEPT !.kind = "str", !.str = "soon"]}
AnyCredFiles ==
    CredFiles
    \cup {Creds(Str("a4"), NullV, Str("r4"), NullV, e, NoExpiry) : e \in AnyExpiry}
    \cup {Creds(NullV, Str("a5"), NullV, Str("r5"), NoExpiry, e) : e \in AnyExpiry}
    \cup {Creds(Str("a4"), Str("a5"), Str("r4"), Str("r5"), Expiry(3, 600), Expiry(1700003600, 0)),
          Creds(Str(""), Str("a5"), NullV, Str("r5"), Expiry(0, 0), Expiry(1700003600, 0)),
          Creds(NullV, NullV, Str("r4"), NullV, Expiry(3, 600), NoExpiry)}

InitRecordsMade ==
    /\ AUTH_FILE \in ConcFiles
    /\ now \in {0, 1000, 1700000000}
    /\ ticks = 0 /\ left = [p \in Procs |-> 0]
    /\ pc = [p \in Procs |-> "idle"]
    /\ fd = [p \in Procs |-> "closed"]
    /\ call = [p \in Procs |-> NoCall]
    /\ prev = [p \in Procs |-> NoCall]
    /\ loggedOut = FALSE
    /\ NoOthers

Made(name, input, e, t, frac) ==
    [name |-> name, at |-> now, input |-> input, exc |-> e, record |-> t, frac |-> frac,
     pre |-> AUTH_FILE]

\* auth.py:77-110
exchange_code ==
    /\ \E resp \in AnyResponses :
         LET e == ExchangeRaises(resp)
         IN ret' = Made("exchange_code", resp, e,
                        IF e = "" THEN TokenData(resp.at, resp.rt, Num(ExpiresAt(resp, now)))
                        ELSE NoToken, 0)
    /\ UNCHANGED <<authVars, config, oauth, _client, sent, root, _index>>

\* auth.py:113-143
refresh_tokens ==
    /\ \E resp \in AnyResponses :
         LET e == RefreshRaises(resp)
         IN ret' = Made("refresh_tokens", resp, e,
                        IF e = "" THEN TokenData(resp.at, RefreshTokenOf(resp, Str("r1")),
                                                 Num(ExpiresAt(resp, now)))
                        ELSE NoToken, 0)
    /\ UNCHANGED <<authVars, config, oauth, _client, sent, root, _index>>

\* commands/auth.py:65-117, save_tokens (auth.py:146-164) included
import_tokens ==
    /\ \E cr \in AnyCredFiles :
         LET t == ImportRecord(cr)
             e == IF ExpiryTruthy(cr.expiresAt) THEN cr.expiresAt ELSE cr.expires_at
         IN /\ ret' = Made("import_tokens", cr, IF t.some THEN "" ELSE "Exit", t,
                           IF t.some THEN ImportFrac(e) ELSE 0)
            /\ AUTH_FILE' = IF t.some
                            THEN File(WriteAt0(OpenW(AUTH_FILE.content), Serialize(t)), SaveMode)
                            ELSE AUTH_FILE
    /\ UNCHANGED <<now, ticks, pc, fd, call, prev, left, loggedOut>>
    /\ UNCHANGED <<config, oauth, _client, sent, root, _index>>

NextRecordsMade == exchange_code \/ refresh_tokens \/ import_tokens
SpecRecordsMade == InitRecordsMade /\ [][NextRecordsMade]_vars

\* C12: every token record made by exchange_code, refresh_tokens or the
\* credential import has expires_at strictly greater than the clock value at
\* its creation, whatever expires_in the endpoint sent (absent, zero,
\* negative) and whatever the credentials file holds (no expiry included).
C12_ExpiryInFuture ==
    (ret.name \in {"exchange_code", "refresh_tokens", "import_tokens"} /\ ret.record.some)
        => (ret.record.expires_at.num > ret.at
            \/ (ret.record.expires_at.num = ret.at /\ ret.frac > 0))

\* the expiries of a credentials file that are numbers other than zero
NumericExpiries(cr) ==
    {e \in {cr.expiresAt, cr.expires_at} : e.kind = "num" /\ (e.q /= 0 \/ e.r /= 0)}

\* C19: the credential import takes access token, refresh token and expiry
\* from the camelCase or the snake_case key; an expiry above 1e12 is divided
\* by 1000 (record * 1000 = value) and any other is kept as it is; a file
\* lacking an access token or a refresh token is rejected and the token file
\* is left as it was.
C19_ImportInSeconds ==
    ret.name = "import_tokens" =>
        LET cr == ret.input
            t == ret.record
        IN /\ (~Truthy(cr.accessToken) /\ ~Truthy(cr.access_token))
                \/ (~Truthy(cr.refreshToken) /\ ~Truthy(cr.refresh_token))
              => (~t.some /\ ret.exc = "Exit" /\ AUTH_FILE = ret.pre)
           /\ t.some =>
                /\ Truthy(t.access_token) /\ Truthy(t.refresh_token)
                /\ t.access_token \in {cr.accessToken, cr.access_token}
                /\ t.refresh_token \in {cr.refreshToken, cr.refresh_token}
                /\ NumericExpiries(cr) /= {} =>
                     \E e \in NumericExpiries(cr) :
                        IF e.q > MS_THRESHOLD_K \/ (e.q = MS_THRESHOLD_K /\ e.r > 0)
                        THEN t.expires_at = Num(e.q) /\ ret.frac = e.r
                        ELSE t.expires_at = Num(e.q * 1000 + e.r) /\ ret.frac = 0

\* a snake_case file with an expiry in milliseconds was imported
C19_Witness ==
    /\ ret.name = "import_tokens"
    /\ ret.input.access_token = Str("a5") /\ ret.input.accessToken = NullV
    /\ ret.input.expires_at = Expiry(1700003600, 0)
    /\ ret.record = TokenData(Str("a5"), Str("r5"), Num(1700003600))
    /\ AUTH_FILE.exists /\ LoadResult(AUTH_FILE.content).tok = ret.record

(***************************************************************************)
(* generate_pkce (auth.py:39-52).  Bytes are numbers 0..255, text is a     *)
(* sequence of one-character strings.  base64 is computed as the library   *)
(* computes it: three bytes make four 6-bit digits of the alphabet, a      *)
(* short last group is padded with "=".                                    *)
(***************************************************************************)
\* the random byte strings secrets.token_urlsafe draws from are numbered 0..MaxSeed
MaxSeed == 127
\* auth.py:46  secrets.token_urlsafe(32)
VERIFIER_BYTES == 32
\* hashlib.sha256(...).digest() has 32 bytes
DIGEST_BYTES == 32

\* base64.urlsafe_b64encode's alphabet
UrlAlphabet ==
    <<
       "A", "B", "C", "D", "E", "F", "G", "H", "I", "J", "K", "L", "M", "N", "O", "P",
       "Q", "R", "S", "T", "U", "V", "W", "X", "Y", "Z", "a", "b", "c", "d", "e", "f",
       "g", "h", "i", "j", "k", "l", "m", "n", "o", "p", "q", "r", "s", "t", "u", "v",
       "w", "x", "y", "z", "0", "1", "2", "3", "4", "5", "6", "7", "8", "9", "-", "_" >>

\* one group of up to three bytes as four characters
Group(alphabet, g) ==
    LET n == g[1] * 65536 + (IF Len(g) > 1 THEN g[2] * 256 ELSE 0)
                          + (IF Len(g) > 2 THEN g[3] ELSE 0)
    IN << alphabet[(n \div 262144) + 1],
          alphabet[((n \div 4096) % 64) + 1],
          IF Len(g) > 1 THEN alphabet[((n \div 64) % 64) + 1] ELSE "=",
          IF Len(g) > 2 THEN alphabet[(n % 64) + 1] ELSE "=" >>

RECURSIVE B64Encode(_, _)
B64Encode(alphabet, bytes) ==
    IF bytes = <<>> THEN <<>>
    ELSE IF Len(bytes) <= 3 THEN Group(alphabet, bytes)
    ELSE Group(alphabet, SubSeq(bytes, 1, 3)) \o B64Encode(alphabet, SubSeq(bytes, 4, Len(bytes)))

\* base64.urlsafe_b64encode
urlsafe_b64encode(bytes) == B64Encode(UrlAlphabet, bytes)

\* the padding left in place
RStripPad_kept(text) == text
\* bytes.rstrip(b"=")
RECURSIVE RStripPad(_)
RStripPad(text) ==
    IF text /= <<>> /\ text[Len(text)] = "=" THEN RStripPad(SubSeq(text, 1, Len(text) - 1))
    ELSE text

\* str.encode("ascii") of a character base64 can produce
Ascii(c) ==
    IF c = "=" THEN 61 ELSE IF c = "+" THEN 43 ELSE IF c = "/" THEN 47
    ELSE LET k == CHOOSE i \in 1..64 : UrlAlphabet[i] = c
         IN IF k <= 26 THEN 64 + k
            ELSE IF k <= 52 THEN 96 + (k - 26)
            ELSE IF k <= 62 THEN 47 + (k - 52)
            ELSE IF k = 63 THEN 45 ELSE 95

\* the seed-th outcome of os.urandom(VERIFIER_BYTES)
RandomBytes(seed) ==
    [i \in 1..VERIFIER_BYTES |-> (seed * (2 * i + 1) + 37 * i * i + (seed \div 8) * 255) % 256]

\* hashlib.sha256(data).digest(): the library's hash is outside the
\* repository; here a fixed function from byte strings to DIGEST_BYTES bytes
RECURSIVE WeightedSum(_, _, _)
WeightedSum(data, j, w) ==
    IF j > Len(data) THEN 0
    ELSE (data[j] * (j + w) + WeightedSum(data, j + 1, w)) % 65536
sha256(data) == [i \in 1..DIGEST_BYTES |-> (WeightedSum(data, 1, i) + 11 * i) % 256]

\* auth.py:46-52
PkcePair(seed) ==
    LET code_verifier == RStripPad(urlsafe_b64encode(RandomBytes(seed)))
        digest == sha256([i \in 1..Len(code_verifier) |-> Ascii(code_verifier[i])])
    IN [name |-> "generate_pkce", seed |-> seed, verifier |-> code_verifier,
        challenge |-> RStripPad(urlsafe_b64encode(digest))]

InitPkce ==
    /\ AUTH_FILE = Absent
    /\ ticks = 0 /\ left = [p \in Procs |-> 0]
    /\ Idle

\* one call
generate_pkce ==
    /\ ret = NoRet
    /\ \E seed \in 0..MaxSeed : ret' = PkcePair(seed)
    /\ UNCHANGED <<authVars, config, oauth, _client, sent, root, _index>>

SpecPkce == InitPkce /\ [][generate_pkce]_vars

\* what a reader of the challenge does (RFC 7636): each character is a 6-bit
\* digit of the URL-safe alphabet, four of them are three bytes, and a last
\* group of two or three characters is one or two bytes
UrlDigit(c) == (CHOOSE i \in 1..64 : UrlAlphabet[i] = c) - 1
RECURSIVE B64UrlDecode(_)
B64UrlDecode(text) ==
    IF Len(text) < 2 THEN <<>>
    ELSE LET d1 == UrlDigit(text[1])
             d2 == UrlDigit(text[2])
             d3 == IF Len(text) > 2 THEN UrlDigit(text[3]) ELSE 0
             d4 == IF Len(text) > 3 THEN UrlDigit(text[4]) ELSE 0
             n == d1 * 262144 + d2 * 4096 + d3 * 64 + d4
             bytes == << n \div 65536, (n \div 256) % 256, n % 256 >>
         IN IF Len(text) <= 4 THEN SubSeq(bytes, 1, Len(text) - 1)
            ELSE bytes \o B64UrlDecode(SubSeq(text, 5, Len(text)))

\* C13: for every pair generate_pkce returns, the challenge is the URL-safe
\* base64 text, without "=" padding, of the SHA-256 digest of the verifier:
\* it has only characters of the URL-safe alphabet and decoding it gives the
\* digest of the verifier's bytes.
C13_ChallengeIsS256 ==
    ret.name = "generate_pkce" =>
        LET digest == sha256([i \in 1..Len(ret.verifier) |-> Ascii(ret.verifier[i])])
            urlChars == {UrlAlphabet[i] : i \in 1..64}
        IN /\ \A i \in 1..Len(ret.challenge) : ret.challenge[i] \in urlChars
           /\ Len(ret.challenge) = (DIGEST_BYTES * 4 + 2) \div 3
           /\ B64UrlDecode(ret.challenge) = digest

\* a pair was generated whose challenge uses both "-" and "_"
C13_Witness ==
    /\ ret.name = "generate_pkce"
    /\ Len(ret.verifier) >= 43
    /\ \E i, j \in 1..Len(ret.challenge) : ret.challenge[i] = "-" /\ ret.challenge[j] = "_"

(***************************************************************************)
(* Context collection (context/collector.py, context/indexer.py,           *)
(* utils/files.py).  A name is its stem and its suffix (Path.suffix); a    *)
(* file of the tree is its directories, its name, what stat() and          *)
(* read_text() give, and its text as a sequence of lines, each line a      *)
(* sequence of lexemes.                                                    *)
(***************************************************************************)
\* files in the tree
MaxTree == 3
\* utils/files.py:51  read_file_safe(max_size=100_000); indexer.py:77
MAX_SIZE == 100000

Name(stem, ext) == [stem |-> stem, ext |-> ext]
Entry(dirs, name, kind, size, mtime, read, stat, content) ==
    [dirs |-> dirs, name |-> name, kind |-> kind, size |-> size, mtime |-> mtime,
     read |-> read, stat |-> stat, content |-> content]
TextFile(dirs, name, size, mtime, content) ==
    Entry(dirs, name, "file", size, mtime, "ok", "ok", content)
\* path.relative_to(root)
RelPath(f) == f.dirs \o <<f.name>>

\* utils/files.py:7-16
BINARY_EXTENSIONS ==
    {".png", ".jpg", ".jpeg", ".gif", ".ico", ".svg", ".webp",
     ".pdf", ".doc", ".docx", ".xls", ".xlsx",
     ".zip", ".tar", ".gz", ".rar", ".7z",
     ".exe", ".dll", ".so", ".dylib",
     ".pyc", ".pyo", ".class", ".o",
     ".woff", ".woff2", ".ttf", ".eot",
     ".mp3", ".mp4", ".wav", ".avi", ".mov",
     ".db", ".sqlite", ".sqlite3"}
\* utils/files.py:19-32
TEXT_EXTENSIONS ==
    {".py", ".js", ".ts", ".jsx", ".tsx", ".mjs", ".cjs",
     ".java", ".kt", ".scala",
     ".c", ".cpp", ".h", ".hpp", ".cc",
     ".go", ".rs", ".swift",
     ".rb", ".php", ".pl", ".pm",
     ".sh", ".bash", ".zsh", ".fish",
     ".html", ".css", ".scss", ".sass", ".less",
     ".json", ".yaml", ".yml", ".toml", ".xml",
     ".md", ".txt", ".rst", ".org",
     ".sql", ".graphql",
     ".dockerfile", ".env", ".gitignore",
     ".conf", ".cfg", ".ini"}

\* str.lower() on the suffixes the model's files have
Lower(ext) == IF ext = ".PNG" THEN ".png" ELSE IF ext = ".PY" THEN ".py" ELSE ext

\* the suffix compared as it is spelled
is_binary_file_cased(f) == f.name.ext \in BINARY_EXTENSIONS
\* utils/files.py:35-37
is_binary_file(f) == Lower(f.name.ext) \in BINARY_EXTENSIONS

\* every file taken for text
is_text_file_any(f) == TRUE
\* utils/files.py:40-48
is_text_file(f) ==
    \/ Lower(f.name.ext) \in TEXT_EXTENSIONS
    \/ f.name.ext = "" /\ f.name.stem \in {"Makefile", "Dockerfile", "Vagrantfile", "Jenkinsfile"}

\* utils/files.py:69-101
get_language_from_extension(f) ==
    LET ext_map ==
          (".py" :> "python") @@ (".js" :> "javascript") @@ (".ts" :> "typescript")
          @@ (".jsx" :> "jsx") @@ (".tsx" :> "tsx") @@ (".java" :> "java")
          @@ (".kt" :> "kotlin") @@ (".go" :> "go") @@ (".rs" :> "rust") @@ (".c" :> "c")
          @@ (".cpp" :> "cpp") @@ (".h" :> "c") @@ (".hpp" :> "cpp") @@ (".rb" :> "ruby")
          @@ (".php" :> "php") @@ (".swift" :> "swift") @@ (".sh" :> "bash")
          @@ (".bash" :> "bash") @@ (".html" :> "html") @@ (".css" :> "css")
          @@ (".scss" :> "scss") @@ (".json" :> "json") @@ (".yaml" :> "yaml")
          @@ (".yml" :> "yaml") @@ (".toml" :> "toml") @@ (".xml" :> "xml")
          @@ (".sql" :> "sql") @@ (".md" :> "markdown")
        e == Lower(f.name.ext)
    IN IF e \in DOMAIN ext_map THEN ext_map[e] ELSE "text"

\* utils/files.py:51-66  None (NullV) or the text; undecodable bytes are
\* replaced (errors="replace"), so only stat and the open can fail
read_file_safe(f) ==
    IF f.stat /= "ok" \/ f.size > MAX_SIZE \/ f.read = "PermissionError" THEN NullV
    ELSE [kind |-> "text", lines |-> f.content]

\* collector.py:138-152  "" (no block) or the block: name, language tag, text
_format_file(f) ==
    LET content == read_file_safe(f)
    IN IF content = NullV \/ content.lines = <<>> THEN [some |-> FALSE]
       ELSE [some |-> TRUE, name |-> f.name, lang |-> get_language_from_extension(f),
             content |-> content.lines, of |-> f]

(***************************************************************************)
(* Ignore patterns (pathspec, gitwildmatch).  A line is a sequence of      *)
(* lexemes: an optional "!", then "*" and a suffix or a name (stem and     *)
(* optional suffix), then an optional "/"; <<>> is an empty line and a     *)
(* line starting with "#" a comment.  Patterns without a slash inside      *)
(* match a path component at any depth; the last pattern that matches      *)
(* decides (a "!" pattern re-includes).                                    *)
(***************************************************************************)
ParsePattern(line) ==
    IF line = <<>> \/ Head(line) = "#" THEN [some |-> FALSE]
    ELSE LET neg == Head(line) = "!"
             l1 == IF neg THEN Tail(line) ELSE line
             dir == l1 /= <<>> /\ l1[Len(l1)] = "/"
             l2 == IF dir THEN SubSeq(l1, 1, Len(l1) - 1) ELSE l1
         IN IF l2 = <<>> THEN [some |-> FALSE]
            ELSE [some |-> TRUE, neg |-> neg, dir |-> dir, glob |-> l2[1] = "*",
                  name |-> IF l2[1] = "*" THEN Name("", IF Len(l2) > 1 THEN l2[2] ELSE "")
                           ELSE Name(l2[1], IF Len(l2) > 1 THEN l2[2] ELSE "")]

\* the pattern matches the path: some component has the name (or, for
\* "*<suffix>", ends with the suffix), a directory if the pattern ends in "/"
PatternMatches(pat, path) ==
    \E i \in 1..Len(path) :
        /\ pat.dir => i < Len(path)
        /\ IF pat.glob THEN (pat.name.ext = "" \/ path[i].ext = pat.name.ext)
           ELSE path[i] = pat.name

\* PathSpec.match_file (collector.py:129, indexer.py:57)
match_file(lines, path) ==
    LET hits == {i \in 1..Len(lines) :
                    ParsePattern(lines[i]).some /\ PatternMatches(ParsePattern(lines[i]), path)}
    IN hits /= {} /\ ~ParsePattern(lines[CHOOSE i \in hits : \A j \in hits : j <= i]).neg

\* root / ".gitignore" (collector.py:111-118, indexer.py:43-46): absent, or
\* its lines, or the exception read_text() raises
Gitignore(tree) ==
    LET found == {f \in tree : f.dirs = <<>> /\ f.name = Name(".gitignore", "")}
    IN IF found = {} THEN [exc |-> "", lines |-> <<>>]
       ELSE LET g == CHOOSE f \in found : TRUE
            IN IF g.kind = "dir" THEN [exc |-> "IsADirectoryError", lines |-> <<>>]
               ELSE IF g.read /= "ok" THEN [exc |-> g.read, lines |-> <<>>]
               ELSE [exc |-> "", lines |-> g.content]

\* only the configured patterns
IndexPatterns_configured(ignore, lines) == ignore
\* indexer.py:42-46  the configured patterns, then the lines of .gitignore
IndexPatterns(ignore, lines) == ignore \o lines
\* collector.py:111-118  the lines of .gitignore, then the configured patterns
FindPatterns(ignore, lines) == lines \o ignore

\* directories and other entries kept
Surviving_any(tree, lines) ==
    {f \in tree : ~is_binary_file(f) /\ ~match_file(lines, RelPath(f))}
\* the loop of collector.py:121-132 and indexer.py:50-58: regular files, not
\* binary by suffix, not matched
Surviving(tree, lines) ==
    {f \in tree : f.kind = "file" /\ ~is_binary_file(f) /\ ~match_file(lines, RelPath(f))}

\* oldest first
RECURSIVE Sorted_ascending(_)
Sorted_ascending(files) ==
    IF files = {} THEN {<<>>}
    ELSE UNION {{<<f>> \o rest : rest \in Sorted_ascending(files \ {f})} :
                f \in {g \in files : \A h \in files : g.mtime <= h.mtime}}
\* the orders list.sort(key=mtime, reverse=True) can leave the files in:
\* descending modification time, files of equal time in the order rglob
\* produced them, which is any order
RECURSIVE Sorted(_)
Sorted(files) ==
    IF files = {} THEN {<<>>}
    ELSE UNION {{<<f>> \o rest : rest \in Sorted(files \ {f})} :
                f \in {g \in files : \A h \in files : g.mtime >= h.mtime}}

\* no cap
Take_all(seq, n) == seq
\* Python's seq[:n]
Take(seq, n) ==
    IF n >= 0 THEN SubSeq(seq, 1, IF n < Len(seq) THEN n ELSE Len(seq))
    ELSE SubSeq(seq, 1, IF Len(seq) + n > 0 THEN Len(seq) + n ELSE 0)

\* the blocks of the files that have one, in order (collector.py:94-97)
RECURSIVE Blocks(_)
Blocks(files) ==
    IF files = <<>> THEN <<>>
    ELSE (IF _format_file(Head(files)).some THEN <<_format_file(Head(files))>> ELSE <<>>)
         \o Blocks(Tail(files))

(***************************************************************************)
(* The trees and configurations the collector and the indexer are run on.  *)
(***************************************************************************)
\* config.py:77-78  ContextConfig; max_files is whatever integer the
\* configuration file holds
ContextConfigs ==
    {[max_files |-> n,
      ignore |-> << <<".git">>, <<"node_modules">>, <<"__pycache__">>, <<".venv">> >>] :
        n \in {0 - 1, 0, 1, 2, 50}}

\* the root's .gitignore: two patterns; one re-including a file; unreadable
GitignoreFiles ==
    {TextFile(<<>>, Name(".gitignore", ""), 15, 2, << <<"*", ".log">>, <<"secrets", "/">> >>),
     TextFile(<<>>, Name(".gitignore", ""), 17, 2,
              << <<"#", "logs">>, <<"*", ".log">>, <<"!", "debug", ".log">> >>),
     Entry(<<>>, Name(".gitignore", ""), "file", 15, 2, "PermissionError", "ok", <<>>)}
\* what else a tree may hold
OtherFiles ==
    {TextFile(<<>>, Name("main", ".py"), 13, 5, << <<"print('main')">> >>),
     TextFile(<<>>, Name("utils", ".py"), 16, 3, << <<"def util(): pass">> >>),
     TextFile(<<>>, Name("Makefile", ""), 20, 3, << <<"all:">>, <<"\tpytest">> >>),
     TextFile(<<>>, Name("debug", ".log"), 11, 9, << <<"log content">> >>),
     TextFile(<<Name("secrets", "")>>, Name("keys", ".txt"), 11, 7, << <<"secret keys">> >>),
     TextFile(<<Name("node_modules", "")>>, Name("package", ".json"), 16, 8, << <<"{}">> >>),
     TextFile(<<>>, Name("image", ".PNG"), 8, 9, << <<"PNG">> >>),
     TextFile(<<>>, Name("big", ".py"), MAX_SIZE + 1, 6, << <<"# big">> >>),
     TextFile(<<>>, Name("edge", ".py"), MAX_SIZE, 6, << <<"# edge">> >>),
     TextFile(<<>>, Name("empty", ".py"), 0, 4, <<>>),
     Entry(<<>>, Name("locked", ".py"), "file", 9, 5, "PermissionError", "ok", <<>>),
     Entry(<<>>, Name("latin", ".txt"), "file", 5, 2, "UnicodeDecodeError", "ok", << <<"caf?">> >>),
     Entry(<<>>, Name("gone", ".py"), "file", 7, 1, "ok", "gone", << <<"# gone">> >>),
     Entry(<<>>, Name("pkg", ""), "dir", 4096, 10, "IsADirectoryError", "ok", <<>>)}
Trees ==
    {t \cup g : t \in {x \in SUBSET OtherFiles : Cardinality(x) <= MaxTree},
                g \in {{}} \cup {{y} : y \in GitignoreFiles}}

InitContext ==
    /\ AUTH_FILE = Absent
    /\ ticks = 0 /\ left = [p \in Procs |-> 0]
    /\ now = 0
    /\ pc = [p \in Procs |-> "idle"]
    /\ fd = [p \in Procs |-> "closed"]
    /\ call = [p \in Procs |-> NoCall]
    /\ prev = [p \in Procs |-> NoCall]
    /\ loggedOut = FALSE
    /\ oauth = NullV /\ _client = NullV /\ sent = <<>>
    /\ config \in ContextConfigs
    /\ root \in Trees
    /\ _index = <<>>
    /\ ret = NoRet

\* what collect_from_path ends with: the exception, or the blocks that are
\* joined with blank lines; files is what _find_files returned
Collected(target, e, files, out) ==
    [name |-> "collect_from_path", target |-> target, exc |-> e, files |-> files, out |-> out]

\* collector.py:24-38 with _collect_directory (82-99) and _find_files
\* (101-136), called once on a new collector; the target is the root, a file
\* of it, or a path that is not there
collect_from_path ==
    /\ ret = NoRet
    /\ \/ \E f \in {x \in root : x.kind = "file"} :
            ret' = Collected(RelPath(f), "", <<>>,
                             IF f.stat = "ok" THEN Blocks(<<f>>) ELSE <<>>)
       \/ ret' = Collected(<<Name("nonexistent", "")>>, "", <<>>, <<>>)
       \/ LET g == Gitignore(root)
              found == Surviving(root, FindPatterns(config.ignore, g.lines))
          IN IF g.exc /= "" THEN ret' = Collected(<<>>, g.exc, <<>>, <<>>)
             ELSE IF \E f \in found : f.stat /= "ok"
             THEN ret' = Collected(<<>>, "FileNotFoundError", <<>>, <<>>)
             ELSE \E files \in Sorted(found) :
                     ret' = Collected(<<>>, "", files, Blocks(Take(files, config.max_files)))
    /\ UNCHANGED <<authVars, config, oauth, _client, sent, root, _index>>

\* indexer.py:63-89
_create_file_info(f) ==
    [relative_path |-> RelPath(f), extension |-> Lower(f.name.ext), size |-> f.size,
     lines |-> IF is_text_file(f) /\ f.size < MAX_SIZE /\ f.read = "ok"
               THEN Num(Len(f.content)) ELSE NullV]
\* the index of a set of files, keyed by relative path
IndexOf(files) ==
    [p \in {RelPath(f) : f \in files} |-> _create_file_info(CHOOSE f \in files : RelPath(f) = p)]

\* indexer.py:38-61, called once on a new indexer; when it raises, the files
\* reached before are indexed
build_index ==
    /\ ret = NoRet
    /\ LET g == Gitignore(root)
           found == Surviving(root, IndexPatterns(config.ignore, g.lines))
       IN IF g.exc /= ""
          THEN _index' = <<>> /\ ret' = [name |-> "build_index", exc |-> g.exc]
          ELSE IF \E f \in found : f.stat /= "ok"
          THEN /\ \E reached \in SUBSET {f \in found : f.stat = "ok"} :
                     _index' = IndexOf(reached)
               /\ ret' = [name |-> "build_index", exc |-> "FileNotFoundError"]
          ELSE _index' = IndexOf(found) /\ ret' = [name |-> "build_index", exc |-> ""]
    /\ UNCHANGED <<authVars, config, oauth, _client, sent, root>>

NextContext == collect_from_path \/ build_index
SpecContext == InitContext /\ [][NextContext]_vars

\* collect_from_path(root) has returned
DirCollected == ret.name = "collect_from_path" /\ ret.target = <<>> /\ ret.exc = ""

\* C14 as stated: for every configured max_files = N the output of
\* collect_from_path(directory) has at most N blocks.
C14_AtMostMaxFiles == DirCollected => Len(ret.out) <= config.max_files

\* C14, amended: for every configured max_files = N >= 0 the output has at
\* most N blocks, however many candidate files there are, and the files
\* beyond the cap are dropped without an exception.
C14_AtMostMaxFiles_NonNegative ==
    (ret.name = "collect_from_path" /\ ret.target = <<>> /\ config.max_files >= 0) =>
        /\ Len(ret.out) <= config.max_files
        /\ ret.exc /= "" =>
             (Gitignore(root).exc /= "" \/ \E f \in root : f.stat /= "ok")

\* more candidates than the cap, and exactly max_files blocks
C14_Witness ==
    /\ DirCollected
    /\ config.max_files = 2 /\ Len(ret.files) = 3 /\ Len(ret.out) = 2

NonBinaryFiles == {f \in root : f.kind = "file" /\ Lower(f.name.ext) \notin BINARY_EXTENSIONS}

\* C16: when build_index() returns, the index has exactly one entry for each
\* regular file under the root that has no binary suffix and that the ignore
\* matcher does not match, under its path relative to the root, and nothing
\* else; with no file ignored that is one entry per non-binary file.
C16_IndexIsExact ==
    (ret.name = "build_index" /\ ret.exc = "") =>
        LET lines == config.ignore \o Gitignore(root).lines
            wanted == {f \in NonBinaryFiles : ~match_file(lines, RelPath(f))}
        IN /\ DOMAIN _index = {RelPath(f) : f \in wanted}
           /\ \A p \in DOMAIN _index : _index[p].relative_path = p
           /\ \A f \in wanted : _index[RelPath(f)].size = f.size
           /\ wanted = NonBinaryFiles => Cardinality(DOMAIN _index) = Cardinality(NonBinaryFiles)

\* a tree with two text files, a binary file and a directory was indexed
C16_Witness ==
    /\ ret.name = "build_index" /\ ret.exc = ""
    /\ Cardinality(DOMAIN _index) = 2
    /\ \E f \in root : f.name = Name("image", ".PNG")
    /\ Cardinality(root) >= 3

\* C17: build_index() and collect_from_path(directory) complete whatever
\* read or stat fails under the root, the root's .gitignore included: no
\* exception reaches the caller.
C17_ScanNeverRaises ==
    (ret.name = "build_index" \/ (ret.name = "collect_from_path" /\ ret.target = <<>>))
        => ret.exc = ""

\* C18: collect_from_path(file) is empty when the file cannot be read or is
\* larger than 100,000 bytes, and otherwise is one block of the file's name,
\* language tag and content; a path that is neither file nor directory gives
\* the empty string.
C18_SingleFile ==
    (ret.name = "collect_from_path" /\ ret.target /= <<>>) =>
        /\ ret.exc = ""
        /\ (\A f \in root : RelPath(f) /= ret.target) => ret.out = <<>>
        /\ \A f \in root : (RelPath(f) = ret.target /\ f.kind = "file") =>
              IF f.read = "PermissionError" \/ f.stat /= "ok" \/ f.size > MAX_SIZE
              THEN ret.out = <<>>
              ELSE /\ Len(ret.out) = 1
                   /\ ret.out[1].name = f.name /\ ret.out[1].content = f.content

\* C20: the candidate files are in descending modification time, the blocks
\* are in that order, and every file with a block is at least as recent as
\* every candidate the cap cut off.
C20_MostRecentFirst ==
    DirCollected =>
        LET files == ret.files
            n == config.max_files
            kept == IF n >= 0 THEN n ELSE Len(files) + n
            cut == {files[k] : k \in {j \in 1..Len(files) : j > kept}}
        IN /\ \A i, j \in 1..Len(files) : i < j => files[i].mtime >= files[j].mtime
           /\ \A i, j \in 1..Len(ret.out) : i < j => ret.out[i].of.mtime >= ret.out[j].of.mtime
           /\ \A i \in 1..Len(ret.out) :
                 /\ \E k \in 1..Len(files) : k <= kept /\ files[k] = ret.out[i].of
                 /\ \A f \in cut : ret.out[i].of.mtime >= f.mtime

\* three candidates of different age under a cap of two: the oldest is cut
C20_Witness ==
    /\ DirCollected
    /\ config.max_files = 2 /\ Len(ret.files) = 3 /\ Len(ret.out) = 2
    /\ ret.out[1].of.mtime > ret.out[2].of.mtime
    /\ ret.out[2].of.mtime > ret.files[3].mtime

(***************************************************************************)
(* The directory tree of collect_summary (collector.py:154-193).  Here a   *)
(* name is the sequence of its characters and an entry of the tree is its  *)
(* path from the root, its kind ("file", "dir", or "other" for what is     *)
(* neither, such as a dangling link) and what iterdir() does on it; root   *)
(* is the entries and the order in which iterdir() lists a directory.  A   *)
(* line of the result is its prefix, one unit per level, the connector     *)
(* ("|-- " for the tee, "+-- " for the corner), the name and the "/" of a  *)
(* directory; of is the entry the line draws.                              *)
(***************************************************************************)
\* collector.py:180-181  entries[:20], i == 19
MAX_TREE_ENTRIES == 20
\* entries in a small tree
MaxNodes == 4
\* entries a wide directory has beyond MAX_TREE_ENTRIES
MaxOver == 2

\* ord() of a character of a name
Ord(c) == IF c = "." THEN 46 ELSE Ascii(c)
\* the code points of the name as it is spelled
lower_unchanged(name) == [i \in DOMAIN name |-> Ord(name[i])]
\* the code points of name.lower() (collector.py:171)
lower(name) ==
    [i \in DOMAIN name |-> IF Ord(name[i]) \in 65..90 THEN Ord(name[i]) + 32 ELSE Ord(name[i])]
\* Python's a < b on strings, given as code points
RECURSIVE StrLess(_, _)
StrLess(a, b) ==
    IF b = <<>> THEN FALSE
    ELSE IF a = <<>> THEN TRUE
    ELSE IF Head(a) /= Head(b) THEN Head(a) < Head(b)
    ELSE StrLess(Tail(a), Tail(b))

\* path.iterdir()
iterdir(path) ==
    {e \in root.entries : Len(e.path) = Len(path) + 1 /\ SubSeq(e.path, 1, Len(path)) = path}
\* a comes before b in sorted(entries, key=lambda p: (p.is_file(), p.name.lower())):
\* False before True, then the lowered names; the sort is stable, so entries
\* of one key stay as iterdir() listed them
SortsBefore(a, b) ==
    LET na == a.path[Len(a.path)]
        nb == b.path[Len(b.path)]
    IN IF (a.kind = "file") /= (b.kind = "file") THEN b.kind = "file"
       ELSE IF lower(na) /= lower(nb) THEN StrLess(lower(na), lower(nb))
       ELSE IF root.listing = "ascending" THEN StrLess(lower_unchanged(na), lower_unchanged(nb))
       ELSE StrLess(lower_unchanged(nb), lower_unchanged(na))
sorted(entries) ==
    [i \in 1..Cardinality(entries) |->
        CHOOSE e \in entries : Cardinality({x \in entries : SortsBefore(x, e)}) = i - 1]

\* nothing filtered
Visible_all(entries, ignore) == entries
\* collector.py:176-179  e.name not in self._ignore_patterns
Visible(entries, ignore) ==
    SelectSeq(entries, LAMBDA e : \A k \in DOMAIN ignore : ignore[k] /= e.path[Len(e.path)])

\* collector.py:154-193
RECURSIVE _build_tree(_, _, _)
_build_tree(path, max_depth, prefix) ==
    IF max_depth <= 0 THEN <<>>
    ELSE IF \E d \in root.entries : d.path = path /\ d.list = "PermissionError" THEN <<>>
    ELSE LET entries == Visible(sorted(iterdir(path)), config.ignore)
             shown == Take(entries, MAX_TREE_ENTRIES)
             is_last(i) == i = Len(entries) \/ i = MAX_TREE_ENTRIES
             Lines(i) ==
                 << [prefix |-> prefix,
                     connector |-> IF is_last(i) THEN "+-- " ELSE "|-- ",
                     name |-> shown[i].path[Len(shown[i].path)],
                     slash |-> shown[i].kind = "dir",
                     of |-> shown[i]] >>
                 \o (IF shown[i].kind = "dir"
                     THEN _build_tree(shown[i].path, max_depth - 1,
                                      prefix \o <<IF is_last(i) THEN "    " ELSE "|   ">>)
                     ELSE <<>>)
             RECURSIVE From(_)
             From(i) == IF i > Len(shown) THEN <<>> ELSE Lines(i) \o From(i + 1)
         IN From(1)

\* the trees: every parent-closed choice of at most MaxNodes entries of a
\* small pool (names that differ in case only, a directory four levels deep,
\* an ignored and an unreadable directory, a dangling link), and directories
\* of about MAX_TREE_ENTRIES files or subdirectories
TreeInputs ==
    LET E(path, kind, list) == [path |-> path, kind |-> kind, list |-> list]
        src == <<"s", "r", "c">>
        Pkg == <<"P", "k", "g">>
        git == <<".", "g", "i", "t">>
        pool == {E(<< <<"a">> >>, "file", "ok"), E(<< <<"B">> >>, "file", "ok"),
                 E(<< <<"b">> >>, "file", "ok"), E(<< <<"l", "n">> >>, "other", "ok"),
                 E(<<src>>, "dir", "ok"), E(<<src, <<"m">> >>, "file", "ok"),
                 E(<<src, Pkg>>, "dir", "ok"), E(<<src, <<"a", "a">> >>, "dir", "ok"),
                 E(<<src, Pkg, <<"i", "n">> >>, "dir", "ok"),
                 E(<<src, Pkg, <<"i", "n">>, <<"y">> >>, "file", "ok"),
                 E(<<git>>, "dir", "ok"), E(<<git, <<"c">> >>, "file", "ok"),
                 E(<< <<"D", "o", "c", "s">> >>, "dir", "PermissionError"),
                 E(<< <<"D", "o", "c", "s">>, <<"r">> >>, "file", "ok"),
                 E(<<>>, "dir", "PermissionError")}
        small == {t \in SUBSET pool :
                    /\ Cardinality(t) <= MaxNodes
                    /\ \A e \in t : Len(e.path) > 1 =>
                          \E d \in t : d.path = SubSeq(e.path, 1, Len(e.path) - 1)}
        wide == {{E(<< <<"f", UrlAlphabet[k]>> >>, kind, "ok") : k \in 1..n}
                   \cup (IF kind = "dir"
                         THEN {E(<< <<"f", UrlAlphabet[k]>>, <<"x">> >>, "file", "ok") : k \in 1..n}
                         ELSE {E(<<git>>, "dir", "ok")}) :
                 n \in (MAX_TREE_ENTRIES - 1)..(MAX_TREE_ENTRIES + MaxOver),
                 kind \in {"file", "dir"}}
    IN {[entries |-> t, listing |-> l] : t \in small \cup wide, l \in {"ascending", "descending"}}

InitTree ==
    /\ AUTH_FILE = Absent
    /\ ticks = 0 /\ left = [p \in Procs |-> 0]
    /\ now = 0
    /\ pc = [p \in Procs |-> "idle"]
    /\ fd = [p \in Procs |-> "closed"]
    /\ call = [p \in Procs |-> NoCall]
    /\ prev = [p \in Procs |-> NoCall]
    /\ loggedOut = FALSE
    /\ oauth = NullV /\ _client = NullV /\ sent = <<>> /\ _index = <<>>
    /\ config = [max_files |-> 50,
                 ignore |-> << <<".", "g", "i", "t">>, <<".", "v", "e", "n", "v">> >>]
    /\ root \in TreeInputs
    /\ ret = NoRet

\* collector._build_tree(root, max_depth) on a new collector, as
\* collect_summary (collector.py:76) and the tests call it
build_tree ==
    /\ ret = NoRet
    /\ \E max_depth \in (0 - 1)..4 :
          ret' = [name |-> "_build_tree", max_depth |-> max_depth,
                  lines |-> _build_tree(<<>>, max_depth, <<>>)]
    /\ UNCHANGED <<authVars, config, oauth, _client, sent, root, _index>>

SpecTree == InitTree /\ [][build_tree]_vars

\* _build_tree has returned its lines
TreeBuilt == ret.name = "_build_tree"
\* the directory a line's entry lies in
ParentOf(line) == SubSeq(line.of.path, 1, Len(line.of.path) - 1)
\* a name with its capital letters replaced by the small ones, as code points
Folded(name) ==
    [i \in DOMAIN name |->
        LET k == CHOOSE j \in 0..64 : (j = 0 /\ name[i] = ".") \/ (j > 0 /\ UrlAlphabet[j] = name[i])
        IN IF k = 0 THEN 46 ELSE IF k <= 26 THEN Ascii(UrlAlphabet[k + 26]) ELSE Ascii(name[i])]

\* C21 as stated: among the lines of one directory the files come before the
\* directories, and files and directories are each in alphabetical order
\* without regard to case.
C21_FilesBeforeDirectories ==
    TreeBuilt =>
        \A i, j \in 1..Len(ret.lines) :
            (i < j /\ ParentOf(ret.lines[i]) = ParentOf(ret.lines[j])) =>
                /\ ~(ret.lines[i].of.kind = "dir" /\ ret.lines[j].of.kind = "file")
                /\ ret.lines[i].of.kind = ret.lines[j].of.kind =>
                      ~StrLess(Folded(ret.lines[j].name), Folded(ret.lines[i].name))

\* C21, amended: among the lines of one directory the entries that are not
\* regular files (the directories) come before the regular files, and each of
\* the two groups is in alphabetical order without regard to case.
C21_DirectoriesBeforeFiles ==
    TreeBuilt =>
        \A i, j \in 1..Len(ret.lines) :
            (i < j /\ ParentOf(ret.lines[i]) = ParentOf(ret.lines[j])) =>
                /\ ret.lines[i].of.kind = "file" => ret.lines[j].of.kind = "file"
                /\ (ret.lines[i].of.kind = "file") = (ret.lines[j].of.kind = "file") =>
                      ~StrLess(Folded(ret.lines[j].name), Folded(ret.lines[i].name))

\* a directory line, then the file a, then the file B, all under the root
C21_Witness ==
    /\ TreeBuilt
    /\ \E i, j, k \in 1..Len(ret.lines) :
          /\ i < j /\ j < k
          /\ ret.lines[i].slash /\ ret.lines[i].prefix = <<>>
          /\ ret.lines[j].name = <<"a">> /\ ret.lines[j].of.kind = "file"
          /\ ret.lines[k].name = <<"B">> /\ ret.lines[k].of.kind = "file"

\* C22: the result has no line below level max_depth and none at all for
\* max_depth <= 0; for every directory drawn, its lines are those of its first
\* MAX_TREE_ENTRIES entries in sort order among the entries whose name is not
\* in the ignore list, so at most MAX_TREE_ENTRIES, and exactly the last of
\* them has the closing connector.
C22_TreeBounded ==
    TreeBuilt =>
        LET L == ret.lines
            Kept(dir) == {e \in iterdir(dir) :
                            \A k \in DOMAIN config.ignore : config.ignore[k] /= e.path[Len(e.path)]}
            First(dir) == {e \in Kept(dir) :
                            Cardinality({x \in Kept(dir) : SortsBefore(x, e)}) < MAX_TREE_ENTRIES}
            Of(dir) == {i \in 1..Len(L) : ParentOf(L[i]) = dir}
        IN /\ ret.max_depth <= 0 => L = <<>>
           /\ \A i \in 1..Len(L) :
                 /\ Len(L[i].of.path) <= ret.max_depth
                 /\ Len(L[i].prefix) = Len(L[i].of.path) - 1
                 /\ Cardinality(Of(ParentOf(L[i]))) <= MAX_TREE_ENTRIES
                 /\ {L[k].of : k \in Of(ParentOf(L[i]))} = First(ParentOf(L[i]))
                 /\ L[i].connector = "+-- " <=> (\A k \in Of(ParentOf(L[i])) : k <= i)

\* a directory of MAX_TREE_ENTRIES + 2 subdirectories drawn two levels deep:
\* MAX_TREE_ENTRIES lines for the root, the last with the closing connector
\* and its file under it, and nothing for the two others
C22_Witness ==
    /\ TreeBuilt /\ ret.max_depth = 2
    /\ Cardinality(iterdir(<<>>)) = MAX_TREE_ENTRIES + 2
    /\ Cardinality({i \in 1..Len(ret.lines) : ret.lines[i].prefix = <<>>}) = MAX_TREE_ENTRIES
    /\ Len(ret.lines) = 2 * MAX_TREE_ENTRIES
    /\ ret.lines[2 * MAX_TREE_ENTRIES - 1].connector = "+-- "
    /\ ret.lines[2 * MAX_TREE_ENTRIES].prefix = <<"    ">>

\* C23: in every index build_index leaves, an entry with a line count is
\* that of a file with a known text suffix (in any case), or with no suffix
\* and one of the four allow-listed names, whose size is below MAX_SIZE
\* bytes; every other entry has none.
C23_LineCountOnlyForSmallText ==
    \A p \in DOMAIN _index :
        LET f == CHOOSE g \in root : RelPath(g) = p
            text == \/ Lower(f.name.ext) \in TEXT_EXTENSIONS
                    \/ /\ f.name.ext = ""
                       /\ f.name.stem \in {"Makefile", "Dockerfile", "Vagrantfile", "Jenkinsfile"}
        IN _index[p].lines /= NullV => (text /\ f.size < MAX_SIZE /\ _index[p].size = f.size)

\* main.py is indexed with its one line, and debug.log (no text suffix) and
\* edge.py (MAX_SIZE bytes) without a count
C23_Witness ==
    /\ ret.name = "build_index" /\ ret.exc = ""
    /\ <<Name("main", ".py")>> \in DOMAIN _index /\ _index[<<Name("main", ".py")>>].lines = Num(1)
    /\ <<Name("debug", ".log")>> \in DOMAIN _index /\ _index[<<Name("debug", ".log")>>].lines = NullV
    /\ <<Name("edge", ".py")>> \in DOMAIN _index /\ _index[<<Name("edge", ".py")>>].lines = NullV

(***************************************************************************)
(* One FileIndexer and one ContextCollector over a directory that changes  *)
(* between their scans.  Here ret keeps what the last build_index did      *)
(* (fresh: the tree is as it was then; dropped: the paths the index had    *)
(* before and has no more) and what _find_files returned on the tree as it *)
(* is now.                                                                 *)
(***************************************************************************)
\* files in a tree that is scanned again
MaxScan == 2

\* the old entries are still there
Cleared_kept(index) == index
\* indexer.py:40  self._index.clear()
Cleared(index) == <<>>

\* the files a scanned tree may hold, and what its .gitignore may be: two
\* patterns; a pattern and its exception; an exception to a configured
\* pattern; an unreadable one
ScanFiles ==
    {f \in OtherFiles :
        f.name \in {Name("main", ".py"), Name("debug", ".log"), Name("image", ".PNG"),
                    Name("package", ".json"), Name("gone", ".py")}}
ScanIgnores ==
    GitignoreFiles \cup
        {TextFile(<<>>, Name(".gitignore", ""), 14, 2, << <<"!", "node_modules">> >>)}

NoScan == [some |-> FALSE]
InitScans ==
    /\ AUTH_FILE = Absent
    /\ ticks = 0 /\ left = [p \in Procs |-> 0]
    /\ now = 0
    /\ pc = [p \in Procs |-> "idle"]
    /\ fd = [p \in Procs |-> "closed"]
    /\ call = [p \in Procs |-> NoCall]
    /\ prev = [p \in Procs |-> NoCall]
    /\ loggedOut = FALSE
    /\ oauth = NullV /\ _client = NullV /\ sent = <<>>
    /\ \E extra \in {<<>>, << <<"*", ".log">> >>} :
          config = [max_files |-> 50,
                    ignore |-> << <<".git">>, <<"node_modules">>, <<"__pycache__">>, <<".venv">> >>
                               \o extra]
    /\ \E t \in {x \in SUBSET ScanFiles : Cardinality(x) <= MaxScan},
          g \in {{}} \cup {{y} : y \in ScanIgnores} : root = t \cup g
    /\ _index = <<>>
    /\ ret = [name |-> "scans", build_index |-> NoScan, _find_files |-> NoScan]

\* a file or the .gitignore is created, deleted or replaced
change_files ==
    /\ \/ \E f \in root : root' = root \ {f}
       \/ \E f \in ScanFiles \ root :
             /\ Cardinality(root \cap ScanFiles) < MaxScan
             /\ root' = root \cup {f}
       \/ \E g \in ScanIgnores \ root : root' = (root \ ScanIgnores) \cup {g}
    /\ ret' = [ret EXCEPT !.build_index = IF @.some THEN [@ EXCEPT !.fresh = FALSE] ELSE @,
                          !._find_files = NoScan]
    /\ UNCHANGED <<authVars, config, oauth, _client, sent, _index>>

\* indexer.py:38-61, on the indexer that may have built an index before
build_index_again ==
    /\ LET g == Gitignore(root)
           found == Surviving(root, IndexPatterns(config.ignore, g.lines))
           Done(e) == [ret EXCEPT !.build_index =
                          [some |-> TRUE, exc |-> e, fresh |-> TRUE,
                           dropped |-> DOMAIN _index \ DOMAIN _index']]
       IN IF g.exc /= ""
          THEN _index' = Cleared(_index) /\ ret' = Done(g.exc)
          ELSE IF \E f \in found : f.stat /= "ok"
          THEN /\ \E reached \in SUBSET {f \in found : f.stat = "ok"} :
                     _index' = IndexOf(reached) @@ Cleared(_index)
               /\ ret' = Done("FileNotFoundError")
          ELSE _index' = IndexOf(found) @@ Cleared(_index) /\ ret' = Done("")
    /\ UNCHANGED <<authVars, config, oauth, _client, sent, root>>

\* collector.py:101-136
_find_files ==
    /\ LET g == Gitignore(root)
           found == Surviving(root, FindPatterns(config.ignore, g.lines))
           Done(e, files) == [ret EXCEPT !._find_files = [some |-> TRUE, exc |-> e, files |-> files]]
       IN IF g.exc /= "" THEN ret' = Done(g.exc, <<>>)
          ELSE IF \E f \in found : f.stat /= "ok" THEN ret' = Done("FileNotFoundError", <<>>)
          ELSE \E files \in Sorted(found) : ret' = Done("", files)
    /\ UNCHANGED <<authVars, config, oauth, _client, sent, root, _index>>

NextScans == change_files \/ build_index_again \/ _find_files
SpecScans == InitScans /\ [][NextScans]_vars

\* build_index and _find_files have both returned on the tree as it is
BothScanned ==
    /\ ret.name = "scans"
    /\ ret.build_index.some /\ ret.build_index.fresh /\ ret.build_index.exc = ""
    /\ ret._find_files.some /\ ret._find_files.exc = ""
\* the paths _find_files returned
FoundPaths == {RelPath(ret._find_files.files[i]) : i \in 1..Len(ret._find_files.files)}
\* neither the configured list nor .gitignore has a "!" pattern
NoNegation ==
    \A line \in {config.ignore[i] : i \in DOMAIN config.ignore}
                \cup {Gitignore(root).lines[i] : i \in DOMAIN Gitignore(root).lines} :
        line = <<>> \/ Head(line) /= "!"

\* C24: when neither the configured ignore list nor .gitignore has a "!"
\* pattern, the files build_index indexed are exactly the files _find_files
\* returned for the same tree.
C24_AgreeWithoutNegation == (BothScanned /\ NoNegation) => DOMAIN _index = FoundPaths

\* a .gitignore with *.log and a tree with debug.log and main.py: both scans
\* keep main.py and .gitignore
C24_Witness ==
    /\ BothScanned /\ NoNegation
    /\ Gitignore(root).lines /= <<>>
    /\ \E f \in root : f.name = Name("debug", ".log")
    /\ DOMAIN _index = {<<Name("main", ".py")>>, <<Name(".gitignore", "")>>}
    /\ FoundPaths = DOMAIN _index

\* the index as the tree, the configured list and .gitignore determine it
WantedIndex ==
    LET lines == config.ignore \o Gitignore(root).lines
        wanted == {f \in root : /\ f.kind = "file"
                                /\ Lower(f.name.ext) \notin BINARY_EXTENSIONS
                                /\ ~match_file(lines, RelPath(f))}
    IN [p \in {RelPath(f) : f \in wanted} |->
            _create_file_info(CHOOSE f \in wanted : RelPath(f) = p)]
\* after a build the index has entries of the files surviving in the tree
\* only, each as the file is now, and all of them if the build returned
IndexCurrent ==
    (ret.name = "scans" /\ ret.build_index.some /\ ret.build_index.fresh) =>
        /\ DOMAIN _index \subseteq DOMAIN WantedIndex
        /\ \A p \in DOMAIN _index : _index[p] = WantedIndex[p]
        /\ ret.build_index.exc = "" => _index = WantedIndex
\* a build that follows a build that returned, on the same tree, leaves the
\* index as it was
SameAgain ==
    (build_index_again /\ ret.build_index.some /\ ret.build_index.fresh /\ ret.build_index.exc = "")
        => (_index' = _index /\ ret'.build_index.exc = "")

\* C25: whatever changes and builds came before, after build_index() the
\* index holds the files surviving in the tree at that build and no entry of
\* a file that was deleted or became ignored since an earlier build; a
\* second build over the unchanged tree gives the same index.
C25_IndexRebuilt == []IndexCurrent /\ [][SameAgain]_vars

\* a build dropped an entry the build before had made and kept another
C25_Witness ==
    /\ ret.name = "scans" /\ ret.build_index.some /\ ret.build_index.fresh
    /\ ret.build_index.exc = ""
    /\ ret.build_index.dropped /= {}
    /\ _index /= <<>>

\* C30: for every tree, configured ignore list and .gitignore, "!" patterns
\* included, the files build_index indexed are exactly the files _find_files
\* returned for the same tree.
C30_ScansAgree == BothScanned => DOMAIN _index = FoundPaths

(***************************************************************************)
(* The login command (commands/auth.py:19-53) with auth.login (auth.py:    *)
(* 237-262) and auth.complete_login (265-283).  Here ret is the command:   *)
(* where it stands, the verifier and state login() returned, the code the  *)
(* prompt returned (a sequence of characters), the token file as it was    *)
(* when the prompt returned, and the exit status; sent is what went out:   *)
(* the URL given to webbrowser.open and the form posted to the token       *)
(* endpoint.                                                               *)
(***************************************************************************)
\* str.strip() of a code made of letters, digits and blanks
RECURSIVE strip(_)
strip(code) ==
    IF code = <<>> THEN code
    ELSE IF Head(code) = " " THEN strip(Tail(code))
    ELSE IF code[Len(code)] = " " THEN strip(SubSeq(code, 1, Len(code) - 1))
    ELSE code

\* only the empty code is refused
IsBlank_empty(code) == code = <<>>
\* commands/auth.py:42  not code or not code.strip()
IsBlank(code) == code = <<>> \/ strip(code) = <<>>

\* auth.py:55-74, the parameters that vary
get_authorization_url(state, code_challenge) ==
    [response_type |-> "code", state |-> state, code_challenge |-> code_challenge,
     code_challenge_method |-> "S256"]

InitLogin ==
    /\ AUTH_FILE \in {Absent} \cup {File(Serialize(t), OwnerRW) : t \in InitRecords}
    /\ ticks = 0 /\ left = [p \in Procs |-> 0]
    /\ now = 0
    /\ pc = [p \in Procs |-> "idle"]
    /\ fd = [p \in Procs |-> "closed"]
    /\ call = [p \in Procs |-> NoCall]
    /\ prev = [p \in Procs |-> NoCall]
    /\ loggedOut = FALSE
    /\ config = NullV /\ oauth = NullV /\ _client = NullV /\ root = {} /\ _index = <<>>
    /\ sent = <<>>
    /\ ret = [name |-> "login", pc |-> "is_authenticated", code_verifier |-> <<>>,
              state |-> "", entered |-> FALSE, code |-> <<>>, pre |-> Absent, exit |-> 0 - 1]

\* commands/auth.py:21-24  auth.is_authenticated(): False without a token
\* file; with one, get_access_token() gives a token or None and may have
\* stored a refreshed record
login_is_authenticated ==
    /\ ret.name = "login" /\ ret.pc = "is_authenticated"
    /\ \E authenticated \in IF AUTH_FILE.exists THEN BOOLEAN ELSE {FALSE} :
          ret' = IF authenticated THEN [ret EXCEPT !.pc = "exit", !.exit = 1]
                 ELSE [ret EXCEPT !.pc = "login"]
    /\ AUTH_FILE' \in {AUTH_FILE} \cup
          (IF AUTH_FILE.exists
           THEN {File(Serialize(TokenData(Str("a2"), Str("r2"), Num(now + DEFAULT_EXPIRES_IN))),
                      SaveMode)}
           ELSE {})
    /\ UNCHANGED <<now, ticks, pc, fd, call, prev, left, loggedOut>>
    /\ UNCHANGED <<config, oauth, _client, sent, root, _index>>

\* commands/auth.py:29-33 with auth.login(): generate_pkce, a random state,
\* the URL, webbrowser.open (True, False when no browser was found, or an
\* exception)
login_open_browser ==
    /\ ret.name = "login" /\ ret.pc = "login"
    /\ \E seed \in {3, 77}, state \in {"s1", "s2"}, opened \in {"True", "False", "Exception"} :
          LET pkce == PkcePair(seed)
          IN /\ sent' = Append(sent, [to |-> "webbrowser.open", result |-> opened,
                                      url |-> get_authorization_url(state, pkce.challenge)])
             /\ ret' = IF opened = "Exception" THEN [ret EXCEPT !.pc = "exit", !.exit = 1]
                       ELSE [ret EXCEPT !.pc = "prompt", !.code_verifier = pkce.verifier,
                                        !.state = state]
    /\ UNCHANGED <<authVars, config, oauth, _client, root, _index>>

\* commands/auth.py:40  typer.prompt: the text typed, or Abort
login_prompt ==
    /\ ret.name = "login" /\ ret.pc = "prompt"
    /\ \/ ret' = [ret EXCEPT !.pc = "exit", !.exit = 1]
       \/ \E code \in {<<>>, <<" ">>, <<" ", " ">>, <<"c", "1">>, <<" ", "c", "1", " ">>} :
             ret' = [ret EXCEPT !.pc = "complete_login", !.entered = TRUE, !.code = code,
                                !.pre = AUTH_FILE]
    /\ UNCHANGED <<authVars, config, oauth, _client, sent, root, _index>>

\* commands/auth.py:42-53 with auth.complete_login: exchange_code's POST,
\* then save_tokens (which may fail with OSError); any exception is exit 1
login_complete_login ==
    /\ ret.name = "login" /\ ret.pc = "complete_login"
    /\ IF IsBlank(ret.code)
       THEN /\ ret' = [ret EXCEPT !.pc = "exit", !.exit = 1]
            /\ UNCHANGED <<AUTH_FILE, sent>>
       ELSE \E resp \in Responses, saved \in BOOLEAN :
               LET e == ExchangeRaises(resp)
                   t == TokenData(resp.at, resp.rt, Num(ExpiresAt(resp, now)))
               IN /\ sent' = Append(sent, [to |-> "post",
                                           data |-> [grant_type |-> "authorization_code",
                                                     code |-> strip(ret.code),
                                                     code_verifier |-> ret.code_verifier]])
                  /\ IF e = "" /\ saved
                     THEN /\ AUTH_FILE' = File(WriteAt0(OpenW(AUTH_FILE.content), Serialize(t)),
                                               SaveMode)
                          /\ ret' = [ret EXCEPT !.pc = "exit", !.exit = 0]
                     ELSE /\ AUTH_FILE' = AUTH_FILE
                          /\ ret' = [ret EXCEPT !.pc = "exit", !.exit = 1]
    /\ UNCHANGED <<now, ticks, pc, fd, call, prev, left, loggedOut>>
    /\ UNCHANGED <<config, oauth, _client, root, _index>>

NextLogin ==
    login_is_authenticated \/ login_open_browser \/ login_prompt \/ login_complete_login
SpecLogin == InitLogin /\ [][NextLogin]_vars

\* C26: every code exchange of the login command comes after the one
\* webbrowser.open of this run, carries the verifier whose S256 challenge
\* was in the URL opened and a code that is not blank, the code entered
\* without its surrounding blanks; when the code entered is blank the command
\* ends with no exchange and the token file as it was.
C26_LoginOrdering ==
    ret.name = "login" =>
        LET posts == {j \in 1..Len(sent) : sent[j].to = "post"}
            opens == {i \in 1..Len(sent) : sent[i].to = "webbrowser.open"}
            blank == \A k \in 1..Len(ret.code) : ret.code[k] = " "
        IN /\ Cardinality(posts) <= 1 /\ Cardinality(opens) <= 1
           /\ \A j \in posts :
                 /\ \E i \in opens :
                       /\ i < j /\ sent[i].result /= "Exception"
                       /\ sent[i].url.code_challenge_method = "S256"
                       /\ B64UrlDecode(sent[i].url.code_challenge)
                            = sha256([k \in 1..Len(sent[j].data.code_verifier) |->
                                         Ascii(sent[j].data.code_verifier[k])])
                 /\ ret.entered /\ ~blank
                 /\ sent[j].data.code /= <<>>
                 /\ Head(sent[j].data.code) /= " "
                 /\ sent[j].data.code[Len(sent[j].data.code)] /= " "
                 /\ \E a, b \in 0..Len(ret.code) :
                       ret.code = [k \in 1..a |-> " "] \o sent[j].data.code \o [k \in 1..b |-> " "]
           /\ (ret.pc = "exit" /\ ret.entered /\ blank) =>
                 (posts = {} /\ AUTH_FILE = ret.pre /\ ret.exit = 1)

\* a login that ended well: the code typed with blanks around it was
\* exchanged without them and the record stored
C26_Witness ==
    /\ ret.name = "login" /\ ret.pc = "exit" /\ ret.exit = 0
    /\ ret.code = <<" ", "c", "1", " ">>
    /\ Len(sent) = 2 /\ sent[2].to = "post" /\ sent[2].data.code = <<"c", "1">>
    /\ AUTH_FILE.exists /\ AUTH_FILE /= ret.pre

NoStoringCall == \A p \in Procs : call[p].name \notin Storing /\ prev[p].name \notin Storing

\* C28 as stated: once delete_tokens() has returned, and as long as no call
\* that stores a record (complete_login, import, save_tokens) has been made,
\* the token file holds no record, whatever another process was doing in
\* get_access_token() when the logout ran.
C28_LogoutIsFinal ==
    (loggedOut /\ NoStoringCall) => Stored(AUTH_FILE) = NoToken

\* C28: once delete_tokens() has returned, and as long as no call that
\* stores a record has been made, a token file exists again only through the
\* save of a get_access_token() that had loaded a record and obtained its
\* refreshed record from the endpoint.
C28_OnlyRefreshRestores ==
    (loggedOut /\ NoStoringCall /\ AUTH_FILE.exists) =>
        \E p \in Procs : \E c \in {call[p], prev[p]} :
            /\ ViaGetAccessToken(c)
            /\ c.loaded.some /\ c.posts = 1 /\ c.fresh.some

\* process 2 logged out while process 1 was between its refresh and its
\* save; process 1 returned the new access token and the file holds its
\* refreshed record
C28_Witness ==
    /\ loggedOut /\ NoStoringCall
    /\ call[2].name = "delete_tokens" /\ call[2].ret = RetTrue
    /\ call[1].name = "get_access_token" /\ call[1].done
    /\ call[1].fresh.some /\ call[1].ret = RetValue(call[1].fresh.access_token)
    /\ AUTH_FILE.exists /\ Stored(AUTH_FILE) = call[1].fresh

\* C29: in every state a concurrently running process can observe, save_tokens'
\* intermediate states and the first save included, a token file that holds
\* a token record grants nothing to group or others.
C29_NeverExposed ==
    (AUTH_FILE.exists /\ Stored(AUTH_FILE).some)
        => AUTH_FILE.mode \cap {"gr", "gw", "or", "ow"} = {}
====
